---- MODULE Spec2Model ----
(***************************************************************************)
(* Model of imap-filter-rs: the matching engine (AddressFilter,            *)
(* Message::compare), the filter pass (IMAPFilter::apply_filters) and the  *)
(* retention pass (IMAPFilter::evaluate_states / apply_transitions)        *)
(* against a Gmail-style IMAP mailbox.                                     *)
(*                                                                         *)
(* Strings are sequences of one-character strings, so that glob matching   *)
(* and duration parsing are computed character by character.               *)
(***************************************************************************)
EXTENDS Integers, Sequences, FiniteSets, TLC

(***************************************************************************)
(* Bounds of the model.                                                    *)
(***************************************************************************)
MaxPats == 2
MaxAddrs == 2
NumMsgs == 2
MaxFilters == 2
MaxStates == 2
MaxNow == 2
MaxFaults == 1
MaxOps == 2

(***************************************************************************)
(* Generic helpers.                                                        *)
(***************************************************************************)
SeqsUpTo(S, n) == UNION { [1..k -> S] : k \in 0..n }

SeqsFromTo(S, lo, hi) == UNION { [1..k -> S] : k \in lo..hi }

\* Sequences of lo..hi elements of S, no element twice.
DistinctSeqs(S, lo, hi) ==
    { q \in SeqsFromTo(S, lo, hi) : \A i, j \in DOMAIN q : i # j => q[i] # q[j] }

Range(s) == { s[i] : i \in DOMAIN s }

None == [tag |-> "None"]

Some(v) == [tag |-> "Some", val |-> v]

(***************************************************************************)
(* Wildcard matching: globset's Glob::new(p).compile_matcher().is_match(s) *)
(* for patterns made of literals, '*' (any run of characters, possibly     *)
(* empty) and '?' (exactly one character).  The match is anchored at both  *)
(* ends and case-sensitive.                                                *)
(***************************************************************************)
RECURSIVE GlobMatch(_, _)
GlobMatch(p, s) ==
    IF p = <<>> THEN s = <<>>
    ELSE IF Head(p) = "*"
         THEN \/ GlobMatch(Tail(p), s)
              \/ s # <<>> /\ GlobMatch(p, Tail(s))
    ELSE IF Head(p) = "?"
         THEN s # <<>> /\ GlobMatch(Tail(p), Tail(s))
    ELSE s # <<>> /\ Head(s) = Head(p) /\ GlobMatch(Tail(p), Tail(s))

(***************************************************************************)
(* AddressFilter::matches: patterns.iter().any(|p| emails.iter().any(...)) *)
(* Both loops are folds over the vectors, left to right.                   *)
(***************************************************************************)
RECURSIVE AnyEmailAll(_, _)
AnyEmailAll(pattern, emails) ==
    IF emails = <<>> THEN TRUE
    ELSE GlobMatch(pattern, Head(emails)) /\ AnyEmailAll(pattern, Tail(emails))

RECURSIVE AnyEmail(_, _)
AnyEmail(pattern, emails) ==
    IF emails = <<>> THEN FALSE
    ELSE GlobMatch(pattern, Head(emails)) \/ AnyEmail(pattern, Tail(emails))

RECURSIVE AddressFilter_matches(_, _)
AddressFilter_matches(patterns, emails) ==
    IF patterns = <<>> THEN FALSE
    ELSE AnyEmail(Head(patterns), emails) \/ AddressFilter_matches(Tail(patterns), emails)

(***************************************************************************)
(* Message::matches_field.  A filter field is None (absent) or Some        *)
(* sequence of patterns; a message field is a sequence of <<display name, address>> *)
(* pairs and the extractor closure keeps the address of each pair.         *)
(***************************************************************************)
Emails(list) == [ i \in DOMAIN list |-> list[i][2] ]

matches_field_collapsed(field, list) ==
    IF field = None THEN TRUE ELSE AddressFilter_matches(field.val, Emails(list))

matches_field(field, list) ==
    IF field = None THEN TRUE
    ELSE IF field.val = <<>> THEN list = <<>>
    ELSE AddressFilter_matches(field.val, Emails(list))

(***************************************************************************)
(* Message::compare: the three address fields and the subject.             *)
(***************************************************************************)
\* A subject test that looks at the first pattern only.
AnySubjectFirstOnly(patterns, subject) == GlobMatch(Head(patterns), subject)

RECURSIVE AnySubject(_, _)
AnySubject(patterns, subject) ==
    IF patterns = <<>> THEN FALSE
    ELSE GlobMatch(Head(patterns), subject) \/ AnySubject(Tail(patterns), subject)

compare(msg, filter) ==
    [ from    |-> matches_field(filter.from, msg.from),
      to      |-> matches_field(filter.to, msg.to),
      cc      |-> matches_field(filter.cc, msg.cc),
      subject |-> IF filter.subject = <<>> THEN TRUE
                  ELSE AnySubject(filter.subject, msg.subject) ]

(***************************************************************************)
(* Glob::new(pattern).expect("Invalid glob pattern"): a pattern with a     *)
(* character class that is never closed does not compile and the expect    *)
(* panics.  The closures of any() run left to right and stop at the first  *)
(* true, so a pattern is compiled only when no pattern before it matched.  *)
(***************************************************************************)
GlobValid(p) ==
    \A i \in DOMAIN p : p[i] = "[" => \E j \in (i + 1)..Len(p) : p[j] = "]"

RECURSIVE AddressFilterPanics(_, _)
AddressFilterPanics(patterns, emails) ==
    IF patterns = <<>> THEN FALSE
    ELSE IF ~GlobValid(Head(patterns)) THEN TRUE
    ELSE IF AnyEmail(Head(patterns), emails) THEN FALSE
    ELSE AddressFilterPanics(Tail(patterns), emails)

FieldPanics(field, list) ==
    /\ field # None
    /\ field.val # <<>>
    /\ AddressFilterPanics(field.val, Emails(list))

RECURSIVE SubjectPanics(_, _)
SubjectPanics(patterns, subject) ==
    IF patterns = <<>> THEN FALSE
    ELSE IF ~GlobValid(Head(patterns)) THEN TRUE
    ELSE IF GlobMatch(Head(patterns), subject) THEN FALSE
    ELSE SubjectPanics(Tail(patterns), subject)

ComparePanics(msg, filter) ==
    \/ FieldPanics(filter.from, msg.from)
    \/ FieldPanics(filter.to, msg.to)
    \/ FieldPanics(filter.cc, msg.cc)
    \/ SubjectPanics(filter.subject, msg.subject)

(***************************************************************************)
(* Text constants.                                                         *)
(***************************************************************************)
a_x == <<"a", "@", "x">>
b_x == <<"b", "@", "x">>
b_y == <<"b", "@", "y">>
star_x == <<"*", "@", "x">>
b_star == <<"b", "@", "*">>
q_x == <<"?", "@", "x">>

Addresses == { a_x, b_x, b_y }
Patterns == { star_x, b_star, a_x }
Names == { "n" }

(***************************************************************************)
(* Gmail labels.  A label is the sequence of its whitespace-separated      *)
(* words; on the wire a label of several words is sent quoted.  System     *)
(* labels start with a backslash.                                          *)
(***************************************************************************)
L_Inbox == << "\\Inbox" >>
L_Starred == << "\\Starred" >>
L_Important == << "\\Important" >>
L_Archive == << "Archive" >>
L_ToBeDeleted == << "ToBeDeleted" >>
L_StarredMail == << "Starred", "Mail" >>

(***************************************************************************)
(* FilterAction and StateAction values.                                    *)
(***************************************************************************)
Star == [type |-> "Star"]
Flag == [type |-> "Flag"]
Move(label) == [type |-> "Move", label |-> label]
Delete == [type |-> "Delete"]

(***************************************************************************)
(* TTL values: Keep, Simple(text), Detailed{read, unread}.                 *)
(***************************************************************************)
Keep == [kind |-> "Keep"]
Simple(days) == [kind |-> "Simple", days |-> days]
Detailed(read, unread) == [kind |-> "Detailed", read |-> read, unread |-> unread]

(***************************************************************************)
(* parse_days: trim, strip the suffix 'd', parse the rest as an i64.       *)
(* The result is Ok(Duration::days(n)) or Err.                             *)
(***************************************************************************)
Digits == <<"0", "1", "2", "3", "4", "5", "6", "7", "8", "9">>

IsDigit(c) == \E i \in DOMAIN Digits : Digits[i] = c

DigitVal(c) == (CHOOSE i \in DOMAIN Digits : Digits[i] = c) - 1

RECURSIVE TrimStart(_)
TrimStart(s) == IF s # <<>> /\ Head(s) = " " THEN TrimStart(Tail(s)) ELSE s

RECURSIVE TrimEnd(_)
TrimEnd(s) ==
    IF s # <<>> /\ s[Len(s)] = " " THEN TrimEnd(SubSeq(s, 1, Len(s) - 1)) ELSE s

Trim(s) == TrimEnd(TrimStart(s))

RECURSIVE DigitsValue(_, _)
DigitsValue(s, acc) ==
    IF s = <<>> THEN acc ELSE DigitsValue(Tail(s), 10 * acc + DigitVal(Head(s)))

Err == [ok |-> FALSE, keep |-> FALSE]

Ok(v) == [ok |-> TRUE, val |-> v]

ParseI64(s) ==
    LET signed == s # <<>> /\ Head(s) \in {"+", "-"}
        body == IF signed THEN Tail(s) ELSE s
    IN IF body = <<>> \/ \E i \in DOMAIN body : ~IsDigit(body[i]) THEN Err
       ELSE IF signed /\ Head(s) = "-" THEN Ok(0 - DigitsValue(body, 0))
       ELSE Ok(DigitsValue(body, 0))

parse_days(s) ==
    LET t == Trim(s)
    IN IF t # <<>> /\ t[Len(t)] = "d"
       THEN ParseI64(SubSeq(t, 1, Len(t) - 1))
       ELSE Err

(***************************************************************************)
(* The TTL resolution of evaluate_states: the text whose days are the      *)
(* required duration, given the candidate's \Seen flag.                    *)
(***************************************************************************)
TtlPeriodSwapped(ttl, seen) ==
    IF ttl.kind = "Simple" THEN ttl.days
    ELSE IF seen THEN ttl.unread ELSE ttl.read

TtlPeriod(ttl, seen) ==
    IF ttl.kind = "Simple" THEN ttl.days
    ELSE IF seen THEN ttl.read ELSE ttl.unread

\* "let ttl_duration = match &state.ttl { ... }": Keep skips the candidate,
\* the other kinds parse the period.
RequiredDurationKeepIsZero(ttl, seen) ==
    IF ttl.kind = "Keep" THEN Ok(0) ELSE parse_days(TtlPeriod(ttl, seen))

RequiredDuration(ttl, seen) ==
    IF ttl.kind = "Keep" THEN [ok |-> FALSE, keep |-> TRUE]
    ELSE parse_days(TtlPeriod(ttl, seen))

(***************************************************************************)
(* The expiry test of evaluate_states: "if age < ttl_duration { continue }" *)
(***************************************************************************)
NotExpired(age, ttl_duration) == age < ttl_duration

(***************************************************************************)
(* Message::new and parse_email_header.  A fetched header block gives, for *)
(* To, Cc and From, a missing header (None), a value addrparse rejects     *)
(* (Unparsable) or Some list of <<display name, address>> pairs, and a     *)
(* missing (None) or present Subject.                                      *)
(***************************************************************************)
Unparsable == [tag |-> "Unparsable"]

parse_email_header(header) == IF header = Unparsable THEN <<>> ELSE header.val

HeaderList(headers, key) ==
    IF headers[key] = None THEN <<>> ELSE parse_email_header(headers[key])

Message_new(raw_uid, raw_seq, body) ==
    [ uid     |-> raw_uid,
      seq     |-> raw_seq,
      to      |-> HeaderList(body, "To"),
      cc      |-> HeaderList(body, "Cc"),
      from    |-> HeaderList(body, "From"),
      subject |-> IF body.Subject = None THEN <<>> ELSE body.Subject.val ]

(***************************************************************************)
(* The server.  mbox is the sequence of the account's messages in          *)
(* ascending UID order; a message is in the selected mailbox INBOX while   *)
(* its inbox field holds, and its sequence number is its rank among the    *)
(* messages in INBOX.                                                      *)
(***************************************************************************)
InboxIdx(mb) == SelectSeq([i \in DOMAIN mb |-> i], LAMBDA i : mb[i].inbox)

SeqNumber(mb, i) == Cardinality({ j \in 1..i : mb[j].inbox })

BySeq(mb, n) == { i \in DOMAIN mb : mb[i].inbox /\ SeqNumber(mb, i) = n }

ByUid(mb, uid) == { i \in DOMAIN mb : mb[i].inbox /\ mb[i].uid = uid }

\* UID STORE uid "+X-GM-LABELS (label)"
AddLabel(mb, uid, label) ==
    [ i \in DOMAIN mb |->
        IF i \in ByUid(mb, uid) THEN [mb[i] EXCEPT !.labels = @ \cup {label}] ELSE mb[i] ]

\* UID STORE uid "+FLAGS (\Deleted)"
MarkDeleted(mb, uid) ==
    [ i \in DOMAIN mb |->
        IF i \in ByUid(mb, uid) THEN [mb[i] EXCEPT !.deleted = TRUE] ELSE mb[i] ]

\* UID MOVE uid mailbox: the message leaves INBOX and carries the label.
MoveOut(mb, uid, label) ==
    [ i \in DOMAIN mb |->
        IF i \in ByUid(mb, uid)
        THEN [mb[i] EXCEPT !.labels = @ \cup {label}, !.inbox = FALSE]
        ELSE mb[i] ]

(***************************************************************************)
(* get_labels: FETCH <n> X-GM-LABELS, where n is used as a message         *)
(* sequence number; the text between "X-GM-LABELS (" and ")" is split on   *)
(* whitespace and each token is trimmed of double quotes.                  *)
(***************************************************************************)
WireTokens(label) ==
    [ k \in DOMAIN label |->
        [ lquote |-> Len(label) > 1 /\ k = 1,
          text   |-> label[k],
          rquote |-> Len(label) > 1 /\ k = Len(label) ] ]

TrimQuotes(token) == token.text

FetchLabels(mb, n) == UNION { mb[i].labels : i \in BySeq(mb, n) }

get_labels(mb, n) ==
    { TrimQuotes(t) : t \in UNION { Range(WireTokens(l)) : l \in FetchLabels(mb, n) } }

\* labels.contains("Starred") || labels.contains("Important")
FreePass(labels) == "Starred" \in labels \/ "Important" \in labels

(***************************************************************************)
(* Text as the program sees it: a string is the sequence of its characters.*)
(***************************************************************************)
UpperCase == <<"A", "B", "C", "D", "E", "F", "G", "H", "I", "J", "K", "L", "M", "N", "O", "P", "Q", "R", "S", "T", "U", "V", "W", "X", "Y", "Z">>

LowerCase == <<"a", "b", "c", "d", "e", "f", "g", "h", "i", "j", "k", "l", "m", "n", "o", "p", "q", "r", "s", "t", "u", "v", "w", "x", "y", "z">>

IsWhitespace(c) == c = " "

\* char::is_alphanumeric, over the ASCII characters of the model.
is_alphanumeric(c) == c \in Range(UpperCase) \cup Range(LowerCase) \cup Range(Digits)

to_ascii_uppercase(c) ==
    IF c \in Range(LowerCase)
    THEN UpperCase[CHOOSE i \in DOMAIN LowerCase : LowerCase[i] = c]
    ELSE c

eq_ignore_ascii_case(v, t) ==
    /\ Len(v) = Len(t)
    /\ \A i \in DOMAIN v : to_ascii_uppercase(v[i]) = to_ascii_uppercase(t[i])

starts_with(s, prefix) ==
    /\ Len(prefix) <= Len(s)
    /\ SubSeq(s, 1, Len(prefix)) = prefix

\* str::contains for a substring.
contains(s, sub) ==
    \E i \in 1..(Len(s) + 1) :
        /\ i + Len(sub) - 1 <= Len(s)
        /\ SubSeq(s, i, i + Len(sub) - 1) = sub

\* str::split_whitespace: the maximal runs of characters that are not
\* whitespace, in order.
RECURSIVE SplitFrom(_, _, _)
SplitFrom(s, i, word) ==
    IF i > Len(s) THEN (IF word = <<>> THEN <<>> ELSE <<word>>)
    ELSE IF IsWhitespace(s[i])
         THEN (IF word = <<>> THEN <<>> ELSE <<word>>) \o SplitFrom(s, i + 1, <<>>)
         ELSE SplitFrom(s, i + 1, Append(word, s[i]))

split_whitespace(s) == SplitFrom(s, 1, <<>>)

\* str::trim_matches: strip the characters of cs from both ends.
RECURSIVE trim_matches(_, _)
trim_matches(s, chars) ==
    IF s = <<>> THEN s
    ELSE IF s[1] \in chars THEN trim_matches(Tail(s), chars)
    ELSE IF s[Len(s)] \in chars THEN trim_matches(SubSeq(s, 1, Len(s) - 1), chars)
    ELSE s

(***************************************************************************)
(* utils::validate_imap_query.  The result is "Ok" or the error raised.    *)
(***************************************************************************)
valid_tokens ==
    { <<"A", "L", "L">>,
      <<"A", "N", "S", "W", "E", "R", "E", "D">>,
      <<"D", "E", "L", "E", "T", "E", "D">>,
      <<"D", "R", "A", "F", "T">>,
      <<"F", "L", "A", "G", "G", "E", "D">>,
      <<"N", "E", "W">>,
      <<"O", "L", "D">>,
      <<"R", "E", "C", "E", "N", "T">>,
      <<"S", "E", "E", "N">>,
      <<"U", "N", "A", "N", "S", "W", "E", "R", "E", "D">>,
      <<"U", "N", "D", "E", "L", "E", "T", "E", "D">>,
      <<"U", "N", "D", "R", "A", "F", "T">>,
      <<"U", "N", "F", "L", "A", "G", "G", "E", "D">>,
      <<"U", "N", "S", "E", "E", "N">>,
      <<"X", "-", "G", "M", "-", "L", "A", "B", "E", "L", "S">>,
      <<"X", "-", "G", "M", "-", "R", "A", "W">>,
      <<"X", "-", "G", "M", "-", "T", "H", "R", "I", "D">>,
      <<"X", "-", "G", "M", "-", "M", "S", "G", "I", "D">>,
      <<"I", "N", "B", "O", "X">>,
      <<"N", "O", "T">>,
      <<"O", "R">>,
      <<"A", "N", "D">> }

KnownFlags ==
    { <<"\\", "S", "e", "e", "n">>,
      <<"\\", "D", "e", "l", "e", "t", "e", "d">>,
      <<"\\", "F", "l", "a", "g", "g", "e", "d">>,
      <<"\\", "D", "r", "a", "f", "t">>,
      <<"\\", "A", "n", "s", "w", "e", "r", "e", "d">> }

X_GM_LABELS == <<"X", "-", "G", "M", "-", "L", "A", "B", "E", "L", "S">>

\* "if t.starts_with("X-GM-LABELS") || valid_tokens.iter().any(..) { continue }
\*  else if t.starts_with("\\") { continue }
\*  else if t.chars().all(char::is_alphanumeric) { continue } else { Err }"
TokenPasses(token) ==
    LET t == trim_matches(token, {"(", ")", "\""})
    IN \/ starts_with(t, X_GM_LABELS)
       \/ \E v \in valid_tokens : eq_ignore_ascii_case(v, t)
       \/ starts_with(t, <<"\\">>)
       \/ \A i \in DOMAIN t : is_alphanumeric(t[i])

validate_imap_query(query) ==
    IF Trim(query) = <<>> THEN "IMAP query must not be empty"
    ELSE IF contains(query, <<"\\">>) /\ \A f \in KnownFlags : ~contains(query, f)
         THEN "Unknown or improperly escaped IMAP flag in query"
    ELSE IF \E k \in DOMAIN split_whitespace(query) : ~TokenPasses(split_whitespace(query)[k])
         THEN "Unsupported or malformed token in IMAP query"
    ELSE "Ok"

(***************************************************************************)
(* uid_search(query) against INBOX, in ascending UID order.                *)
(***************************************************************************)
Q_ALL == <<"A", "L", "L">>
Q_SEEN == <<"S", "E", "E", "N">>
Q_UNSEEN == <<"U", "N", "S", "E", "E", "N">>

\* The search keys the server of the model understands; it answers BAD to
\* any other query and uid_search returns the error.
SearchAccepted(query) == query \in {Q_ALL, Q_SEEN, Q_UNSEEN}

SearchHit(m, query) ==
    CASE query = Q_ALL -> TRUE
      [] query = Q_SEEN -> m.seen
      [] query = Q_UNSEEN -> ~m.seen
      [] OTHER -> FALSE

\* A search that leaves out the messages already marked \Deleted.
uid_search_undeleted(mb, query) ==
    LET hits == SelectSeq(InboxIdx(mb),
                          LAMBDA i : SearchHit(mb[i], query) /\ ~mb[i].deleted)
    IN [ k \in DOMAIN hits |-> mb[hits[k]].uid ]

uid_search(mb, query) ==
    LET hits == SelectSeq(InboxIdx(mb), LAMBDA i : SearchHit(mb[i], query))
    IN [ k \in DOMAIN hits |-> mb[hits[k]].uid ]

(***************************************************************************)
(* Configurations: the filters and the retention states of the YAML file.  *)
(***************************************************************************)
OnlyMeStar ==
    [ to |-> Some(<<star_x>>), cc |-> Some(<<>>), from |-> None, subject |-> <<>>,
      actions |-> <<Star>> ]

FromBFlagMove ==
    [ to |-> None, cc |-> None, from |-> Some(<<b_star>>), subject |-> <<>>,
      actions |-> <<Flag, Move(L_Archive)>> ]

SubjectMove ==
    [ to |-> None, cc |-> None, from |-> None, subject |-> << <<"s", "*">> >>,
      actions |-> <<Move(L_ToBeDeleted), Star>> ]

ToANoAction ==
    [ to |-> Some(<<a_x>>), cc |-> None, from |-> None, subject |-> <<>>,
      actions |-> <<>> ]

\* A from list whose second pattern has a character class that is never
\* closed: "[b".  It is compiled for a message the first pattern misses.
OpenClassStar ==
    [ to |-> None, cc |-> None, from |-> Some(<< b_y, <<"[", "b">> >>), subject |-> <<>>,
      actions |-> <<Star>> ]

FilterTemplates == { OnlyMeStar, FromBFlagMove, SubjectMove, ToANoAction, OpenClassStar }

Keepers ==
    [ query |-> Q_ALL, ttl |-> Keep, action |-> Delete, nerf |-> FALSE ]

Junk ==
    [ query |-> Q_ALL, ttl |-> Simple(<<"1", "d">>), action |-> Delete, nerf |-> FALSE ]

Triaged ==
    [ query |-> Q_ALL, ttl |-> Detailed(<<"1", "d">>, <<"2", "d">>),
      action |-> Move(L_ToBeDeleted), nerf |-> FALSE ]

Nerfed ==
    [ query |-> Q_SEEN, ttl |-> Simple(<<" ", "2", "d">>), action |-> Delete, nerf |-> TRUE ]

Weekly ==
    [ query |-> Q_UNSEEN, ttl |-> Simple(<<"1", "w">>), action |-> Move(L_Archive),
      nerf |-> FALSE ]

\* A query with a token that is no search key: "SEEN!".
Typo ==
    [ query |-> <<"S", "E", "E", "N", "!">>, ttl |-> Simple(<<"1", "d">>),
      action |-> Delete, nerf |-> FALSE ]

StateTemplates == { Keepers, Junk, Triaged, Nerfed, Weekly, Typo }

(***************************************************************************)
(* Mailboxes: the messages the account holds when the run starts.          *)
(***************************************************************************)
HdrOnlyMe ==
    [ To |-> Some(<< <<"n", a_x>> >>), Cc |-> None, From |-> Some(<< <<"n", b_x>> >>),
      Subject |-> Some(<<"s">>) ]

HdrWithCc ==
    [ To |-> Some(<< <<"n", a_x>> >>), Cc |-> Some(<< <<"n", b_x>> >>),
      From |-> Some(<< <<"n", b_y>> >>), Subject |-> Some(<<"t">>) ]

HdrBroken ==
    [ To |-> Unparsable, Cc |-> None, From |-> None, Subject |-> None ]

StoredMessages ==
    { [ body |-> Some(HdrOnlyMe), labels |-> {}, seen |-> FALSE, internal |-> 1 ],
      [ body |-> Some(HdrWithCc), labels |-> {L_Starred}, seen |-> TRUE, internal |-> 0 ],
      [ body |-> Some(HdrBroken), labels |-> {L_StarredMail}, seen |-> TRUE, internal |-> 0 ],
      [ body |-> None, labels |-> {}, seen |-> TRUE, internal |-> 1 ] }

\* UIDs ascend with the position; gap is the number of UIDs already used up
\* by messages that were expunged before the run.
Mailbox(stored, gap) ==
    [ i \in DOMAIN stored |->
        [ uid      |-> i + gap,
          inbox    |-> TRUE,
          deleted  |-> FALSE,
          body     |-> stored[i].body,
          labels   |-> stored[i].labels,
          seen     |-> stored[i].seen,
          internal |-> stored[i].internal ] ]

Mailboxes(gaps) ==
    { Mailbox(st, gap) : st \in SeqsFromTo(StoredMessages, 1, NumMsgs), gap \in gaps }

(***************************************************************************)
(* State.                                                                  *)
(***************************************************************************)
VARIABLES
    pc,         \* position of the run in main / IMAPFilter::execute
    filters,    \* IMAPFilter.filters
    states,     \* IMAPFilter.states
    mbox,       \* the server's messages
    folders,    \* the server's mailboxes (labels that exist)
    sendsUid,   \* whether the server's FETCH responses carry the UID item
    now,        \* Utc::now() of evaluate_states
    messages,   \* apply_filters: the remaining messages
    matched,    \* apply_filters: matched messages of the current filter still to process
    fi,         \* apply_filters: index of the current filter
    si,         \* evaluate_states: index of the current state
    uids,       \* evaluate_states: candidates of the current state still to evaluate
    calls,      \* the commands sent to the server, in order
    processed,  \* the "Processing UID" log of apply_filters with the action attempted
    evals,      \* the per-candidate log of evaluate_states
    faults,     \* how many more commands the server will fail
    cmpIn,      \* input of a stand-alone comparison
    cmpOut,     \* its result
    lsCall,     \* the uid_move / uid_move_gmail call between its two steps
    lsLog       \* the stand-alone label-store calls that returned, in order

vars == << pc, filters, states, mbox, folders, sendsUid, now, messages, matched, fi, si,
           uids, calls, processed, evals, faults, cmpIn, cmpOut, lsCall, lsLog >>

Call(op, id, arg, ok) == [op |-> op, id |-> id, arg |-> arg, ok |-> ok]

Mutating(call) == call.op \in {"UID STORE", "UID MOVE", "STORE", "CREATE"}

\* The run starts with the configuration loaded and the mailbox as the server
\* holds it.  A configuration has filters only, states only, or one filter
\* and one state.  sendsUid is read only when a filter acts, the UID layout
\* and now only when a state is evaluated: each is drawn where it is read.
InitFiltersOnly ==
    /\ filters \in DistinctSeqs(FilterTemplates, 1, MaxFilters)
    /\ states = <<>>
    /\ sendsUid \in BOOLEAN
    /\ now = MaxNow
    /\ mbox \in Mailboxes({0})

InitStatesOnly ==
    /\ filters = <<>>
    /\ states \in DistinctSeqs(StateTemplates, 1, MaxStates)
    /\ sendsUid = FALSE
    /\ now \in (MaxNow - 1)..MaxNow
    /\ mbox \in Mailboxes({0, 1})

InitBoth ==
    /\ \E f \in FilterTemplates : filters = <<f>>
    /\ \E st \in StateTemplates : states = <<st>>
    /\ sendsUid = TRUE
    /\ now \in (MaxNow - 1)..MaxNow
    /\ mbox \in Mailboxes({0, 1})

Init ==
    /\ pc = "new"
    /\ InitFiltersOnly \/ InitStatesOnly \/ InitBoth
    /\ folders = {L_ToBeDeleted}
    /\ messages = <<>>
    /\ matched = <<>>
    /\ fi = 1
    /\ si = 1
    /\ uids = <<>>
    /\ calls = <<>>
    /\ processed = <<>>
    /\ evals = <<>>
    /\ faults = MaxFaults
    /\ cmpIn = None
    /\ cmpOut = None
    /\ lsCall = None
    /\ lsLog = <<>>

(***************************************************************************)
(* IMAPFilter::new: connect and log in.                                    *)
(***************************************************************************)
\* A constructor that hands out the client even when the login failed.
ConnectUnchecked ==
    /\ pc = "new"
    /\ \E fail \in (IF faults > 0 THEN BOOLEAN ELSE {FALSE}) :
        /\ pc' = "fetch"
        /\ faults' = IF fail THEN faults - 1 ELSE faults
        /\ calls' = Append(calls, Call("LOGIN", 0, "", ~fail))
    /\ UNCHANGED << filters, states, mbox, folders, sendsUid, now, messages, matched, fi,
                    si, uids, processed, evals, cmpIn, cmpOut, lsCall, lsLog >>

Connect ==
    /\ pc = "new"
    /\ \E fail \in (IF faults > 0 THEN BOOLEAN ELSE {FALSE}) :
        /\ pc' = IF fail THEN "failed" ELSE "fetch"
        /\ faults' = IF fail THEN faults - 1 ELSE faults
        /\ calls' = Append(calls, Call("LOGIN", 0, "", ~fail))
    /\ UNCHANGED << filters, states, mbox, folders, sendsUid, now, messages, matched, fi,
                    si, uids, processed, evals, cmpIn, cmpOut, lsCall, lsLog >>

(***************************************************************************)
(* IMAPFilter::fetch_messages: SELECT INBOX, SEARCH ALL, FETCH the header   *)
(* fields of every message and build a Message for each record that has a  *)
(* body.  apply_filters then starts with the first filter.                  *)
(***************************************************************************)
FetchedMessages(mb) ==
    LET idx == SelectSeq(InboxIdx(mb), LAMBDA i : mb[i].body # None)
    IN [ k \in DOMAIN idx |->
           Message_new(IF sendsUid THEN mb[idx[k]].uid ELSE 0,
                       SeqNumber(mb, idx[k]),
                       mb[idx[k]].body.val) ]

FetchMessages ==
    /\ pc = "fetch"
    /\ messages' = FetchedMessages(mbox)
    /\ calls' = calls \o << Call("SELECT", 0, "INBOX", TRUE), Call("SEARCH", 0, "ALL", TRUE) >>
                      \o (IF InboxIdx(mbox) = <<>> THEN <<>>
                          ELSE << Call("FETCH", 0, "BODY[HEADER.FIELDS]", TRUE) >>)
    /\ fi' = 1
    /\ pc' = IF filters = <<>> THEN "select" ELSE "filter"
    /\ UNCHANGED << filters, states, mbox, folders, sendsUid, now, matched, si, uids,
                    processed, evals, faults, cmpIn, cmpOut, lsCall, lsLog >>

(***************************************************************************)
(* IMAPFilter::apply_filters.                                              *)
(***************************************************************************)
\* A match that leaves the cc field out.
MatchesButCc(msg, filter) ==
    LET r == compare(msg, filter)
    IN r.from /\ r.to /\ r.subject

Matches(msg, filter) ==
    LET r == compare(msg, filter)
    IN r.from /\ r.to /\ r.cc /\ r.subject

\* A partition that takes every remaining message as matched.
MatchedByAll(msgs, filter) == msgs

\* The partition of the remaining messages by the current filter.
MatchedBy(msgs, filter) == SelectSeq(msgs, LAMBDA m : Matches(m, filter))

RemainingAfterKeepAll(msgs, filter) == msgs

\* A partition that loses the messages the filter does not match.
RemainingAfterDropAll(msgs, filter) == <<>>

RemainingAfter(msgs, filter) == SelectSeq(msgs, LAMBDA m : ~Matches(m, filter))

\* An empty action list that stars the message all the same.
HonoredActionsOrStar(actions) == IF actions = <<>> THEN << Star >> ELSE << Head(actions) >>

\* "We only honor the *first* action in the Vec": filter.actions.first()
HonoredActions(actions) == IF actions = <<>> THEN <<>> ELSE << Head(actions) >>

\* The command an action sends for a message.
ActionCall(action, uid, ok) ==
    CASE action.type = "Star" -> Call("UID STORE", uid, <<"+X-GM-LABELS", L_Starred>>, ok)
      [] action.type = "Flag" -> Call("UID STORE", uid, <<"+X-GM-LABELS", L_Important>>, ok)
      [] action.type = "Delete" -> Call("UID STORE", uid, <<"+FLAGS", "\\Deleted">>, ok)
      [] action.type = "Move" -> Call("UID MOVE", uid, action.label, ok)

\* Whether the server carries the command out: it rejects UID 0, fails when
\* told to, and answers NO [TRYCREATE] to a move into a missing mailbox.
ServerAccepts(action, uid, fail) ==
    /\ ~fail
    /\ uid # 0
    /\ action.type = "Move" => action.label \in folders

\* The mailbox after the command.
ServerApply(mb, action, uid) ==
    CASE action.type = "Star" -> AddLabel(mb, uid, L_Starred)
      [] action.type = "Flag" -> AddLabel(mb, uid, L_Important)
      [] action.type = "Delete" -> MarkDeleted(mb, uid)
      [] action.type = "Move" -> MoveOut(mb, uid, action.label)

\* Where the loop over the filters goes once the current filter is done.
AfterFilter ==
    IF fi < Len(filters)
    THEN fi' = fi + 1 /\ pc' = "filter"
    ELSE fi' = fi /\ pc' = "select"

\* The partition compares every remaining message with the filter; the
\* process panics if a comparison compiles a pattern that is no glob.
FilterPartition ==
    /\ pc = "filter"
    /\ IF \E k \in DOMAIN messages : ComparePanics(messages[k], filters[fi])
       THEN /\ pc' = "panicked"
            /\ UNCHANGED << messages, matched, fi >>
       ELSE /\ matched' = MatchedBy(messages, filters[fi])
            /\ messages' = RemainingAfter(messages, filters[fi])
            /\ IF matched' # <<>> THEN fi' = fi /\ pc' = "act" ELSE AfterFilter
    /\ UNCHANGED << filters, states, mbox, folders, sendsUid, now, si, uids, calls,
                    processed, evals, faults, cmpIn, cmpOut, lsCall, lsLog >>

FilterAct ==
    /\ pc = "act"
    /\ LET msg == Head(matched)
           todo == HonoredActions(filters[fi].actions)
       IN \E fail \in (IF faults > 0 /\ todo # <<>> THEN BOOLEAN ELSE {FALSE}) :
            LET ok == todo # <<>> /\ ServerAccepts(todo[1], msg.uid, fail)
            IN /\ calls' = IF todo = <<>> THEN calls
                           ELSE Append(calls, ActionCall(todo[1], msg.uid, ok))
               /\ mbox' = IF ok THEN ServerApply(mbox, todo[1], msg.uid) ELSE mbox
               /\ faults' = IF fail THEN faults - 1 ELSE faults
               /\ processed' = Append(processed,
                     [ filter |-> fi, msg |-> msg, attempted |-> todo, ok |-> ok ])
    /\ matched' = Tail(matched)
    /\ IF matched' # <<>> THEN fi' = fi /\ pc' = "act" ELSE AfterFilter
    /\ UNCHANGED << filters, states, folders, sendsUid, now, messages, si, uids, evals,
                    cmpIn, cmpOut, lsCall, lsLog >>

(***************************************************************************)
(* IMAPFilter::evaluate_states and apply_transitions.                      *)
(***************************************************************************)
\* A loop over the states that ends after its first state.
AfterStateStopsEarly == si' = si /\ pc' = "logout"

\* Where the loop over the states goes once the current state is done.
AfterState ==
    IF si < Len(states)
    THEN si' = si + 1 /\ pc' = "search"
    ELSE si' = si /\ pc' = "logout"

\* self.client.select("INBOX")?; let now = Utc::now();
EvalSelect ==
    /\ pc = "select"
    /\ calls' = Append(calls, Call("SELECT", 0, "INBOX", TRUE))
    /\ si' = 1
    /\ pc' = IF states = <<>> THEN "logout" ELSE "search"
    /\ UNCHANGED << filters, states, mbox, folders, sendsUid, now, messages, matched, fi,
                    uids, processed, evals, faults, cmpIn, cmpOut, lsCall, lsLog >>

\* 1) uid_search(&state.query)?; "if uids.is_empty() { continue; }"
\*    The query goes to the server as configured; an error of the search
\*    is returned from evaluate_states by the "?".
EvalSearch ==
    /\ pc = "search"
    /\ LET query == states[si].query
           ok == SearchAccepted(query)
       IN /\ calls' = Append(calls, Call("UID SEARCH", 0, query, ok))
          /\ uids' = IF ok THEN uid_search(mbox, query) ELSE <<>>
          /\ IF ~ok THEN si' = si /\ pc' = "failed"
             ELSE IF uids' # <<>> THEN si' = si /\ pc' = "candidate"
             ELSE AfterState
    /\ UNCHANGED << filters, states, mbox, folders, sendsUid, now, messages, matched, fi,
                    processed, evals, faults, cmpIn, cmpOut, lsCall, lsLog >>

\* 2) One iteration of "for uid in uids": the outcome for the candidate.
\*    labels is what get_labels returned, m the record UID FETCH returned.
\* "if state.nerf"
DryRunIgnored(state) == FALSE

DryRun(state) == state.nerf

CandidateOutcome(state, labels, m, fail) ==
    IF FreePass(labels) THEN [ kind |-> "free pass" ]
    ELSE LET seen == m.seen
             age == now - m.internal
             ttl_duration == RequiredDuration(state.ttl, seen)
         IN IF ~ttl_duration.ok
            THEN IF ttl_duration.keep THEN [ kind |-> "keep" ] ELSE [ kind |-> "error" ]
            ELSE IF NotExpired(age, ttl_duration.val)
                 THEN [ kind |-> "not expired", age |-> age, ttl |-> ttl_duration.val ]
            ELSE IF DryRun(state)
                 THEN [ kind |-> "nerf", age |-> age, ttl |-> ttl_duration.val ]
            ELSE [ kind |-> "applied", age |-> age, ttl |-> ttl_duration.val,
                   ok |-> ServerAccepts(state.action, m.uid, fail) ]

\* The commands one iteration sends.
CandidateCalls(state, uid, out) ==
    << Call("FETCH", uid, "X-GM-LABELS", TRUE) >>
    \o (IF out.kind = "free pass" THEN <<>>
        ELSE << Call("UID FETCH", uid, "(INTERNALDATE FLAGS)", TRUE) >>)
    \o (IF out.kind = "applied" THEN << ActionCall(state.action, uid, out.ok) >> ELSE <<>>)

\* The only error that leaves the loop is that of parse_days(..)?;
\* apply_transitions returns nothing and logs the error of its command.
AbortsOnFailedAction(out) ==
    out.kind = "error" \/ (out.kind = "applied" /\ ~out.ok)

Aborts(out) == out.kind = "error"

EvalCandidate ==
    /\ pc = "candidate"
    /\ LET state == states[si]
           uid == Head(uids)
           labels == get_labels(mbox, uid)
           m == mbox[CHOOSE i \in ByUid(mbox, uid) : TRUE]
       IN \E fail \in (IF faults > 0 THEN BOOLEAN ELSE {FALSE}) :
            LET out == CandidateOutcome(state, labels, m, fail)
                sent == out.kind = "applied"
            IN /\ fail => sent
               /\ calls' = calls \o CandidateCalls(state, uid, out)
               /\ evals' = Append(evals, [ state |-> si, uid |-> uid ] @@ out)
               /\ mbox' = IF sent /\ out.ok THEN ServerApply(mbox, state.action, uid)
                          ELSE mbox
               /\ faults' = IF fail THEN faults - 1 ELSE faults
               /\ uids' = Tail(uids)
               /\ IF Aborts(out) THEN si' = si /\ pc' = "failed"
                  ELSE IF uids' # <<>> THEN si' = si /\ pc' = "candidate"
                  ELSE AfterState
    /\ UNCHANGED << filters, states, folders, sendsUid, now, messages, matched, fi,
                    processed, cmpIn, cmpOut, lsCall, lsLog >>

\* self.client.logout()?
Logout ==
    /\ pc = "logout"
    /\ calls' = Append(calls, Call("LOGOUT", 0, "", TRUE))
    /\ pc' = "done"
    /\ UNCHANGED << filters, states, mbox, folders, sendsUid, now, messages, matched, fi,
                    si, uids, processed, evals, faults, cmpIn, cmpOut, lsCall, lsLog >>

Next ==
    \/ Connect
    \/ FetchMessages
    \/ FilterPartition
    \/ FilterAct
    \/ EvalSelect
    \/ EvalSearch
    \/ EvalCandidate
    \/ Logout

Spec == Init /\ [][Next]_vars

(***************************************************************************)
(* The matching engine on its own: Message::compare and                    *)
(* AddressFilter::matches applied to a filter and a message drawn from     *)
(* bounded sets.  One address field runs over every pattern list and every *)
(* address list; the other two run over a few combinations.                *)
(***************************************************************************)
Fields == {"from", "to", "cc"}

AddrPairs == { <<n, a>> : n \in Names, a \in Addresses }

FieldFilters == {None} \cup { Some(ps) : ps \in SeqsUpTo(Patterns, MaxPats) }

AddrLists == SeqsUpTo(AddrPairs, MaxAddrs)

OtherFields ==
    { [filter |-> None, list |-> <<>>],
      [filter |-> Some(<<>>), list |-> << <<"n", a_x>> >>],
      [filter |-> Some(<<star_x>>), list |-> << <<"n", a_x>> >>] }

Subjects ==
    { [filter |-> <<>>, subject |-> <<"s">>],
      [filter |-> << <<"s", "*">> >>, subject |-> <<"t">>],
      [filter |-> << <<"s", "*">> >>, subject |-> <<"s", "u">>],
      [filter |-> << <<"t">>, <<"s", "*">> >>, subject |-> <<"s">>],
      [filter |-> << <<"t">>, <<"?">> >>, subject |-> <<>>] }

CompareInput(main, ff, list, other, sub) ==
    [ filter |-> [ f \in Fields |-> IF f = main THEN ff ELSE other[f].filter ]
                 @@ [ subject |-> sub.filter, actions |-> <<>> ],
      msg    |-> [ f \in Fields |-> IF f = main THEN list ELSE other[f].list ]
                 @@ [ subject |-> sub.subject, uid |-> 1, seq |-> 1 ],
      main   |-> main ]

InitMatch ==
    /\ pc = "compare"
    /\ \E main \in Fields, ff \in FieldFilters, list \in AddrLists,
          other \in [Fields -> OtherFields], sub \in Subjects :
            /\ other[main] = [filter |-> None, list |-> <<>>]
            /\ cmpIn = CompareInput(main, ff, list, other, sub)
    /\ cmpOut = None
    /\ filters = <<>>
    /\ states = <<>>
    /\ mbox = <<>>
    /\ folders = {}
    /\ sendsUid = FALSE
    /\ now = 0
    /\ messages = <<>>
    /\ matched = <<>>
    /\ fi = 1
    /\ si = 1
    /\ uids = <<>>
    /\ calls = <<>>
    /\ processed = <<>>
    /\ evals = <<>>
    /\ faults = 0
    /\ lsCall = None
    /\ lsLog = <<>>

\* msg.compare(filter)
Compare ==
    /\ pc = "compare"
    /\ cmpOut' = [ op |-> "compare", result |-> compare(cmpIn.msg, cmpIn.filter) ]
    /\ pc' = "compared"
    /\ UNCHANGED << filters, states, mbox, folders, sendsUid, now, messages, matched, fi,
                    si, uids, calls, processed, evals, faults, cmpIn, lsCall, lsLog >>

\* AddressFilter { patterns }.matches(&emails) on the main field
AddressMatches ==
    /\ pc = "compare"
    /\ cmpIn.filter[cmpIn.main] # None
    /\ cmpOut' = [ op |-> "matches",
                   result |-> AddressFilter_matches(cmpIn.filter[cmpIn.main].val,
                                                    Emails(cmpIn.msg[cmpIn.main])) ]
    /\ pc' = "compared"
    /\ UNCHANGED << filters, states, mbox, folders, sendsUid, now, messages, matched, fi,
                    si, uids, calls, processed, evals, faults, cmpIn, lsCall, lsLog >>

NextMatch == Compare \/ AddressMatches

SpecMatch == InitMatch /\ [][NextMatch]_vars

(***************************************************************************)
(* The label store of utils.rs on its own: ensure_label_exists, set_label, *)
(* del_label, del_inbox, uid_move and uid_move_gmail called one after the  *)
(* other on a selected INBOX.  Here the inbox label is an element of a     *)
(* message's label set, and the session's view of INBOX does not change:   *)
(* STORE and FETCH never renumber the messages.  The server takes the      *)
(* names INBOX, \INBOX and \Inbox for the inbox label.                      *)
(***************************************************************************)
L_InboxName == << "INBOX" >>
L_SysInbox == << "\\INBOX" >>

Canonical(label) == IF label \in {L_InboxName, L_SysInbox} THEN L_Inbox ELSE label

\* client.store(uid.to_string(), "+X-GM-LABELS .." / "-X-GM-LABELS .."):
\* a STORE, which takes its first argument as a message sequence number.
StoreBySeq(mb, n, sign, label) ==
    [ i \in DOMAIN mb |->
        IF i \in BySeq(mb, n)
        THEN [mb[i] EXCEPT !.labels = IF sign = "+X-GM-LABELS"
                                      THEN @ \cup {Canonical(label)}
                                      ELSE @ \ {Canonical(label)}]
        ELSE mb[i] ]

\* client.uid_store(uid.to_string(), "-X-GM-LABELS (\"\\INBOX\")")
StoreByUid(mb, uid, sign, label) ==
    [ i \in DOMAIN mb |->
        IF i \in ByUid(mb, uid)
        THEN [mb[i] EXCEPT !.labels = IF sign = "+X-GM-LABELS"
                                      THEN @ \cup {Canonical(label)}
                                      ELSE @ \ {Canonical(label)}]
        ELSE mb[i] ]

\* What a call returns: Ok or Err, the commands it sent, and the server's
\* messages and mailboxes after it.
Returned(ok, sent, mb, fs) == [ok |-> ok, calls |-> sent, mbox |-> mb, folders |-> fs]

\* ensure_label_exists: LIST "*", then CREATE when no listed name equals the
\* label.  failAt names the command the server fails, if any.
ensure_label_exists(mb, fs, label, failAt) ==
    IF failAt = "LIST"
    THEN Returned(FALSE, << Call("LIST", 0, "*", FALSE) >>, mb, fs)
    ELSE IF label \in fs
    THEN Returned(TRUE, << Call("LIST", 0, "*", TRUE) >>, mb, fs)
    ELSE IF failAt = "CREATE"
    THEN Returned(FALSE, << Call("LIST", 0, "*", TRUE), Call("CREATE", 0, label, FALSE) >>,
                  mb, fs)
    ELSE Returned(TRUE, << Call("LIST", 0, "*", TRUE), Call("CREATE", 0, label, TRUE) >>,
                  mb, fs \cup {label})

\* current_labels.contains(label): the label equals one of the tokens.  A
\* token holds no whitespace, so only a label of one word can equal one.
Contains(current_labels, label) == Len(label) = 1 /\ label[1] \in current_labels

\* set_label: get_labels, return Ok when the label is among them,
\* otherwise ensure_label_exists and STORE +X-GM-LABELS.
set_label(mb, fs, uid, label, failAt) ==
    IF failAt = "FETCH"
    THEN Returned(FALSE, << Call("FETCH", uid, "X-GM-LABELS", FALSE) >>, mb, fs)
    ELSE IF Contains(get_labels(mb, uid), label)
    THEN Returned(TRUE, << Call("FETCH", uid, "X-GM-LABELS", TRUE) >>, mb, fs)
    ELSE LET e == ensure_label_exists(mb, fs, label, failAt)
             sent == << Call("FETCH", uid, "X-GM-LABELS", TRUE) >> \o e.calls
             cmd == << "+X-GM-LABELS", label >>
         IN IF ~e.ok THEN Returned(FALSE, sent, mb, e.folders)
            ELSE IF failAt = "STORE"
            THEN Returned(FALSE, Append(sent, Call("STORE", uid, cmd, FALSE)), mb, e.folders)
            ELSE Returned(TRUE, Append(sent, Call("STORE", uid, cmd, TRUE)),
                          StoreBySeq(mb, uid, cmd[1], label), e.folders)

\* A del_label that reads the labels first and removes only a label it found.
del_label_checked(mb, fs, uid, label, failAt) ==
    LET cmd == << "-X-GM-LABELS", label >>
        read == Call("FETCH", uid, "X-GM-LABELS", TRUE)
    IN IF failAt = "STORE"
       THEN Returned(FALSE, << read, Call("STORE", uid, cmd, FALSE) >>, mb, fs)
       ELSE IF Contains(get_labels(mb, uid), label)
       THEN Returned(TRUE, << read, Call("STORE", uid, cmd, TRUE) >>,
                     StoreBySeq(mb, uid, cmd[1], label), fs)
       ELSE Returned(TRUE, << read >>, mb, fs)

\* del_label: STORE -X-GM-LABELS, whatever the message carries.
del_label(mb, fs, uid, label, failAt) ==
    LET cmd == << "-X-GM-LABELS", label >>
    IN IF failAt = "STORE"
       THEN Returned(FALSE, << Call("STORE", uid, cmd, FALSE) >>, mb, fs)
       ELSE Returned(TRUE, << Call("STORE", uid, cmd, TRUE) >>,
                     StoreBySeq(mb, uid, cmd[1], label), fs)

\* del_inbox: UID STORE -X-GM-LABELS ("\INBOX").
del_inbox(mb, fs, uid, failAt) ==
    LET cmd == << "-X-GM-LABELS", L_SysInbox >>
    IN IF failAt = "STORE"
       THEN Returned(FALSE, << Call("UID STORE", uid, cmd, FALSE) >>, mb, fs)
       ELSE Returned(TRUE, << Call("UID STORE", uid, cmd, TRUE) >>,
                     StoreByUid(mb, uid, cmd[1], L_SysInbox), fs)

\* The INBOX the calls run against: two messages that carry the inbox
\* label, the second also a label of two words; UIDs 1, 2 or 2, 3.
LabelStoreMessages ==
    << [ body |-> Some(HdrOnlyMe), labels |-> {L_Inbox}, seen |-> FALSE, internal |-> 1 ],
       [ body |-> Some(HdrWithCc), labels |-> {L_Inbox, L_StarredMail}, seen |-> TRUE,
         internal |-> 0 ] >>

LabelStoreMailboxes == { Mailbox(LabelStoreMessages, gap) : gap \in {0, 1} }

LsLabels == {L_Archive, L_StarredMail}

FailPoints == IF faults > 0 THEN {"none", "FETCH", "LIST", "CREATE", "STORE"} ELSE {"none"}

InitLabels ==
    /\ pc = "ls"
    /\ mbox \in LabelStoreMailboxes
    /\ folders = {L_ToBeDeleted, L_StarredMail}
    /\ faults = MaxFaults
    /\ calls = <<>>
    /\ lsCall = None
    /\ lsLog = <<>>
    /\ filters = <<>>
    /\ states = <<>>
    /\ sendsUid = FALSE
    /\ now = 0
    /\ messages = <<>>
    /\ matched = <<>>
    /\ fi = 1
    /\ si = 1
    /\ uids = <<>>
    /\ processed = <<>>
    /\ evals = <<>>
    /\ cmpIn = None
    /\ cmpOut = None

\* The identifiers a caller holds: the UIDs of the messages in INBOX.
KnownUids == { mbox[i].uid : i \in DOMAIN mbox }

\* The server ends up as the call left it; the call failed iff the server
\* failed one of its commands.
Commit(r, failAt) ==
    /\ (failAt # "none") <=> ~r.ok
    /\ calls' = calls \o r.calls
    /\ mbox' = r.mbox
    /\ folders' = r.folders
    /\ faults' = IF r.ok THEN faults ELSE faults - 1

LogEntry(fn, uid, label, ok, first) ==
    [ fn |-> fn, uid |-> uid, label |-> label, ok |-> ok, first |-> first,
      last |-> Len(calls') ]

UnchangedByLabelStore ==
    UNCHANGED << filters, states, sendsUid, now, messages, matched, fi, si, uids,
                 processed, evals, cmpIn, cmpOut >>

\* set_label(client, uid, label, subject)
SetLabel ==
    /\ pc = "ls" /\ Len(lsLog) < MaxOps
    /\ \E uid \in KnownUids, label \in LsLabels, failAt \in FailPoints :
         LET r == set_label(mbox, folders, uid, label, failAt)
         IN /\ Commit(r, failAt)
            /\ lsLog' = Append(lsLog, LogEntry("set_label", uid, label, r.ok, Len(calls) + 1))
    /\ UNCHANGED << pc, lsCall >>
    /\ UnchangedByLabelStore

\* del_label(client, uid, label, subject)
DelLabel ==
    /\ pc = "ls" /\ Len(lsLog) < MaxOps
    /\ \E uid \in KnownUids, label \in LsLabels, failAt \in FailPoints :
         LET r == del_label(mbox, folders, uid, label, failAt)
         IN /\ Commit(r, failAt)
            /\ lsLog' = Append(lsLog, LogEntry("del_label", uid, label, r.ok, Len(calls) + 1))
    /\ UNCHANGED << pc, lsCall >>
    /\ UnchangedByLabelStore

\* ensure_label_exists(client, label)
EnsureLabelExists ==
    /\ pc = "ls" /\ Len(lsLog) < MaxOps
    /\ \E label \in LsLabels, failAt \in FailPoints :
         LET r == ensure_label_exists(mbox, folders, label, failAt)
         IN /\ Commit(r, failAt)
            /\ lsLog' = Append(lsLog,
                   LogEntry("ensure_label_exists", 0, label, r.ok, Len(calls) + 1))
    /\ UNCHANGED << pc, lsCall >>
    /\ UnchangedByLabelStore

\* The first step of uid_move and of uid_move_gmail:
\* set_label(client, uid, label, subject)?
MoveSetLabel(fn, between) ==
    /\ Len(lsLog) < MaxOps
    /\ \E uid \in KnownUids, label \in LsLabels, failAt \in FailPoints :
         LET r == set_label(mbox, folders, uid, label, failAt)
         IN /\ Commit(r, failAt)
            /\ IF r.ok
               THEN /\ pc' = between
                    /\ lsCall' = [ fn |-> fn, uid |-> uid, label |-> label,
                                   first |-> Len(calls) + 1 ]
                    /\ lsLog' = lsLog
               ELSE /\ pc' = "ls"
                    /\ lsCall' = None
                    /\ lsLog' = Append(lsLog, LogEntry(fn, uid, label, FALSE, Len(calls) + 1))
    /\ UnchangedByLabelStore

\* The second step: the call returns what the removal of the inbox label
\* returned.
MoveReturn(r, failAt) ==
    /\ Commit(r, failAt)
    /\ lsLog' = Append(lsLog, LogEntry(lsCall.fn, lsCall.uid, lsCall.label, r.ok, lsCall.first))
    /\ pc' = "ls"
    /\ lsCall' = None
    /\ UnchangedByLabelStore

\* uid_move: set_label(client, uid, label, subject)?
UidMoveSetLabel ==
    /\ pc = "ls"
    /\ MoveSetLabel("uid_move", "ls move")

\* uid_move: del_label(client, uid, "INBOX", subject)?
UidMoveDelLabel ==
    /\ pc = "ls move"
    /\ \E failAt \in FailPoints :
         MoveReturn(del_label(mbox, folders, lsCall.uid, L_InboxName, failAt), failAt)

\* uid_move_gmail: set_label(client, uid, label, subject)?
UidMoveGmailSetLabel ==
    /\ pc = "ls"
    /\ MoveSetLabel("uid_move_gmail", "ls gmail")

\* uid_move_gmail: del_inbox(client, uid, subject)?
UidMoveGmailDelInbox ==
    /\ pc = "ls gmail"
    /\ \E failAt \in FailPoints :
         MoveReturn(del_inbox(mbox, folders, lsCall.uid, failAt), failAt)

NextLabels ==
    \/ SetLabel
    \/ DelLabel
    \/ EnsureLabelExists
    \/ UidMoveSetLabel
    \/ UidMoveDelLabel
    \/ UidMoveGmailSetLabel
    \/ UidMoveGmailDelInbox

SpecLabels == InitLabels /\ [][NextLabels]_vars

(***************************************************************************)
(* Configuration loading (message_filter.rs).  A YAML node is a string     *)
(* scalar, a sequence of nodes, null or a mapping; a key of the filter     *)
(* mapping is omitted or holds a node.                                     *)
(***************************************************************************)
MaxItems == 2

Omitted == [tag |-> "Omitted"]
YamlNull == [tag |-> "Null"]
YamlMap == [tag |-> "Map"]
YamlStr(s) == [tag |-> "Str", val |-> s]
YamlSeq(items) == [tag |-> "Seq", val |-> items]

LoadError == [ok |-> FALSE]

\* A collapsing loader: an empty list is taken for an absent field.
deserialize_address_filter_collapsing(node) ==
    CASE node.tag = "Str" -> Ok(Some(<< node.val >>))
      [] node.tag = "Seq" ->
            IF \E i \in DOMAIN node.val : node.val[i].tag # "Str" THEN LoadError
            ELSE IF node.val = <<>> THEN Ok(None)
            ELSE Ok(Some([ i \in DOMAIN node.val |-> node.val[i].val ]))
      [] OTHER -> LoadError

\* deserialize_address_filter: deserialize_any with a visitor that has
\* visit_str and visit_seq only; any other node is an "invalid type" error,
\* and so is a sequence element that is no string.
deserialize_address_filter(node) ==
    CASE node.tag = "Str" -> Ok(Some(<< node.val >>))
      [] node.tag = "Seq" ->
            IF \E i \in DOMAIN node.val : node.val[i].tag # "Str" THEN LoadError
            ELSE Ok(Some([ i \in DOMAIN node.val |-> node.val[i].val ]))
      [] OTHER -> LoadError

\* #[serde(default, deserialize_with = "deserialize_address_filter")]:
\* an omitted key gives Option::default(), which is None.
load_address_field(field) ==
    IF field = Omitted THEN Ok(None) ELSE deserialize_address_filter(field)

\* A mapping with one entry, as in { Move: "Archive" }.
YamlEntry(key, node) == [tag |-> "Entry", key |-> key, val |-> node]

\* A from_str that takes an unknown name for a label to move to.
from_str_lenient(s) ==
    IF s = <<"S", "t", "a", "r">> THEN Ok(Star)
    ELSE IF s = <<"F", "l", "a", "g">> THEN Ok(Flag)
    ELSE IF starts_with(s, <<"M", "o", "v", "e", ":">>) THEN Ok(Move(SubSeq(s, 6, Len(s))))
    ELSE Ok(Move(s))

\* FilterAction::from_str: "Star", "Flag", or "Move:" and the rest.
from_str(s) ==
    IF s = <<"S", "t", "a", "r">> THEN Ok(Star)
    ELSE IF s = <<"F", "l", "a", "g">> THEN Ok(Flag)
    ELSE IF starts_with(s, <<"M", "o", "v", "e", ":">>) THEN Ok(Move(SubSeq(s, 6, Len(s))))
    ELSE LoadError

\* deserialize_actions: visit_str parses one name, visit_seq a list of
\* strings, visit_map hands the mapping to the derived Deserialize of the
\* enum (the key names the variant: Move with a string, Star or Flag with
\* nothing); there is no other visit method.
deserialize_actions(node) ==
    CASE node.tag = "Str" ->
            IF from_str(node.val).ok THEN Ok(<< from_str(node.val).val >>) ELSE LoadError
      [] node.tag = "Seq" ->
            IF \E i \in DOMAIN node.val : node.val[i].tag # "Str" THEN LoadError
            ELSE IF \E i \in DOMAIN node.val : ~from_str(node.val[i].val).ok THEN LoadError
            ELSE Ok([ i \in DOMAIN node.val |-> from_str(node.val[i].val).val ])
      [] node.tag = "Entry" ->
            IF node.key = <<"M", "o", "v", "e">> /\ node.val.tag = "Str" THEN Ok(<< Move(node.val.val) >>)
            ELSE IF node.key = <<"S", "t", "a", "r">> /\ node.val = YamlNull THEN Ok(<< Star >>)
            ELSE IF node.key = <<"F", "l", "a", "g">> /\ node.val = YamlNull THEN Ok(<< Flag >>)
            ELSE LoadError
      [] OTHER -> LoadError

\* #[serde(default, deserialize_with = "deserialize_actions")]: an omitted
\* key gives the empty list.
load_actions(field) == IF field = Omitted THEN Ok(<<>>) ELSE deserialize_actions(field)

(***************************************************************************)
(* Loading a retention state (state.rs).  A boolean scalar is              *)
(* [tag |-> "Bool"], the mapping {read: .., unread: ..} is                 *)
(* [tag |-> "ReadUnread"].                                                 *)
(***************************************************************************)
\* TTL::deserialize: visit_str gives Keep for "keep" in any case and
\* Simple with the text as it is otherwise; visit_map gives Detailed.
deserialize_ttl(node) ==
    CASE node.tag = "Str" ->
            IF eq_ignore_ascii_case(node.val, <<"k", "e", "e", "p">>) THEN Ok(Keep) ELSE Ok(Simple(node.val))
      [] node.tag = "ReadUnread" -> Ok(Detailed(node.read, node.unread))
      [] OTHER -> LoadError

\* StateAction::deserialize: visit_str gives Delete for "delete" in any
\* case and Move to the text otherwise; visit_map takes the key Move only.
deserialize_state_action(node) ==
    CASE node.tag = "Str" ->
            IF eq_ignore_ascii_case(node.val, <<"d", "e", "l", "e", "t", "e">>) THEN Ok(Delete) ELSE Ok(Move(node.val))
      [] node.tag = "Entry" ->
            IF node.key = <<"M", "o", "v", "e">> /\ node.val.tag = "Str" THEN Ok(Move(node.val.val))
            ELSE LoadError
      [] OTHER -> LoadError

\* A default action that deletes.
default_action_delete == Delete

\* fn default_action() -> StateAction
default_action == Move(<<"T", "o", "B", "e", "D", "e", "l", "e", "t", "e", "d">>)

\* #[derive(Deserialize)] struct State: query and ttl are required,
\* action has #[serde(default = "default_action")], nerf #[serde(default)].
load_state(y) ==
    LET ttl == IF y.ttl = Omitted THEN LoadError ELSE deserialize_ttl(y.ttl)
        action == IF y.action = Omitted THEN Ok(default_action)
                  ELSE deserialize_state_action(y.action)
        nerf == IF y.nerf = Omitted THEN Ok(FALSE)
                ELSE IF y.nerf.tag = "Bool" THEN Ok(y.nerf.val) ELSE LoadError
    IN IF y.query.tag # "Str" \/ ~ttl.ok \/ ~action.ok \/ ~nerf.ok THEN LoadError
       ELSE Ok([ query |-> y.query.val, ttl |-> ttl.val, action |-> action.val,
                 nerf |-> nerf.val ])

(***************************************************************************)
(* The text of the label commands.                                         *)
(***************************************************************************)
MaxLabelLen == 3

\* str::replace(from, to) for a one-character from.
RECURSIVE replace(_, _, _)
replace(s, from, to) ==
    IF s = <<>> THEN <<>>
    ELSE (IF Head(s) = from THEN to ELSE << Head(s) >>) \o replace(Tail(s), from, to)

\* label.replace('\\', "\\\\").replace('"', "\\\"")
escape(label) == replace(replace(label, "\\", <<"\\", "\\">>), "\"", <<"\\", "\"">>)

\* format!("+X-GM-LABELS (\"{}\")", ..) and format!("-X-GM-LABELS (\"{}\")", ..)
set_label_cmd(label) == <<"+", "X", "-", "G", "M", "-", "L", "A", "B", "E", "L", "S", " ", "(", "\"">> \o escape(label) \o <<"\"", ")">>

del_label_cmd(label) == <<"-", "X", "-", "G", "M", "-", "L", "A", "B", "E", "L", "S", " ", "(", "\"">> \o escape(label) \o <<"\"", ")">>

\* The literals of apply_filters: "+X-GM-LABELS (\\Starred)" and
\* "+X-GM-LABELS (\\Important)".
filter_action_cmd(action) ==
    CASE action.type = "Star" -> <<"+", "X", "-", "G", "M", "-", "L", "A", "B", "E", "L", "S", " ", "(", "\\", "S", "t", "a", "r", "r", "e", "d", ")">>
      [] action.type = "Flag" -> <<"+", "X", "-", "G", "M", "-", "L", "A", "B", "E", "L", "S", " ", "(", "\\", "I", "m", "p", "o", "r", "t", "a", "n", "t", ")">>

(***************************************************************************)
(* The functions over text on their own: one input is drawn, one function  *)
(* that takes it is applied, the result is kept.                           *)
(***************************************************************************)
MaxTokens == 2

YamlItems == { YamlStr(p) : p \in {star_x, a_x} } \cup { YamlNull }

AddressFieldNodes ==
    { Omitted, YamlNull, YamlMap }
    \cup { YamlStr(p) : p \in Patterns }
    \cup { YamlSeq(items) : items \in SeqsUpTo(YamlItems, MaxItems) }

QueryTokens ==
    { <<"A", "L", "L">>,
      <<"s", "e", "e", "n">>,
      <<"X", "-", "G", "M", "-", "L", "A", "B", "E", "L", "S">>,
      <<"X", "-", "G", "M", "-", "L", "A", "B", "E", "L", "S", "!">>,
      <<"\\", "S", "e", "e", "n">>,
      <<"\\", "B", "o", "g", "u", "s">>,
      <<"\"", "\\", "S", "t", "a", "r", "r", "e", "d", "\"">>,
      <<"a", "1">>,
      <<"a", "-", "b">>,
      <<"(", "S", "E", "E", "N", ")">> }

RECURSIVE JoinedBy(_, _)
JoinedBy(words, sep) ==
    IF words = <<>> THEN <<>>
    ELSE IF Len(words) = 1 THEN words[1]
    ELSE words[1] \o sep \o JoinedBy(Tail(words), sep)

Queries ==
    { JoinedBy(ws, <<" ">>) : ws \in SeqsUpTo(QueryTokens, MaxTokens) } \cup { <<" ">>, <<" ", " ">> }

LabelChars == { "a", "\\", "\"", " " }

LabelNames == SeqsUpTo(LabelChars, MaxLabelLen)

ActionNames ==
    { <<"S", "t", "a", "r">>, <<"F", "l", "a", "g">>, <<"M", "o", "v", "e", ":", "A", "r", "c", "h", "i", "v", "e">>, <<"M", "o", "v", "e", ":">>, <<"M", "o", "v", "e">>, <<"s", "t", "a", "r">>, <<"U", "n", "k", "n", "o", "w", "n">> }

ActionNodes ==
    { Omitted, YamlNull }
    \cup { YamlStr(n) : n \in ActionNames }
    \cup { YamlSeq(items) :
             items \in SeqsUpTo({ YamlStr(<<"S", "t", "a", "r">>), YamlStr(<<"M", "o", "v", "e", ":", "A", "r", "c", "h", "i", "v", "e">>),
                                  YamlStr(<<"U", "n", "k", "n", "o", "w", "n">>) }, MaxItems) }
    \cup { YamlEntry(key, node) : key \in { <<"S", "t", "a", "r">>, <<"M", "o", "v", "e">>, <<"U", "n", "k", "n", "o", "w", "n">> },
                                  node \in { YamlNull, YamlStr(<<"A", "r", "c", "h", "i", "v", "e">>) } }

StateNodes ==
    [ query : { Omitted, YamlStr(Q_ALL) },
      ttl : { Omitted, YamlStr(<<"k", "e", "e", "p">>), YamlStr(<<"K", "e", "e", "p">>), YamlStr(<<"7", "d">>), YamlStr(<<"1", "w">>),
              [tag |-> "ReadUnread", read |-> <<"7", "d">>, unread |-> <<"x">>] },
      action : { Omitted, YamlNull, YamlStr(<<"d", "e", "l", "e", "t", "e">>), YamlStr(<<"D", "e", "l", "e", "t", "e">>), YamlStr(<<"A", "r", "c", "h", "i", "v", "e">>),
                 YamlEntry(<<"M", "o", "v", "e">>, YamlStr(<<"A", "r", "c", "h", "i", "v", "e">>)),
                 YamlEntry(<<"D", "e", "l", "e", "t", "e">>, YamlNull) },
      nerf : { Omitted, YamlNull, [tag |-> "Bool", val |-> TRUE],
               [tag |-> "Bool", val |-> FALSE] } ]

TextInput(kind, val) == [kind |-> kind, val |-> val]

TextOutput(fn, val) == [fn |-> fn, val |-> val]

InitText ==
    /\ pc = "text"
    /\ \/ \E node \in AddressFieldNodes : cmpIn = TextInput("address field", node)
       \/ \E query \in Queries : cmpIn = TextInput("query", query)
       \/ \E label \in LabelNames : cmpIn = TextInput("label", label)
       \/ \E action \in {Star, Flag} : cmpIn = TextInput("action", action)
       \/ \E node \in ActionNodes : cmpIn = TextInput("actions", node)
       \/ \E y \in StateNodes : cmpIn = TextInput("state", y)
    /\ cmpOut = None
    /\ mbox = <<>>
    /\ folders = {}
    /\ faults = 0
    /\ calls = <<>>
    /\ lsCall = None
    /\ lsLog = <<>>
    /\ filters = <<>>
    /\ states = <<>>
    /\ sendsUid = FALSE
    /\ now = 0
    /\ messages = <<>>
    /\ matched = <<>>
    /\ fi = 1
    /\ si = 1
    /\ uids = <<>>
    /\ processed = <<>>
    /\ evals = <<>>

UnchangedByText ==
    UNCHANGED << filters, states, mbox, folders, sendsUid, now, messages, matched, fi, si,
                 uids, calls, processed, evals, faults, cmpIn, lsCall, lsLog >>

LoadAddressField ==
    /\ pc = "text" /\ cmpIn.kind = "address field"
    /\ cmpOut' = TextOutput("load_address_field", load_address_field(cmpIn.val))
    /\ pc' = "text done"
    /\ UnchangedByText

ValidateImapQuery ==
    /\ pc = "text" /\ cmpIn.kind = "query"
    /\ cmpOut' = TextOutput("validate_imap_query", validate_imap_query(cmpIn.val))
    /\ pc' = "text done"
    /\ UnchangedByText

SetLabelCommand ==
    /\ pc = "text" /\ cmpIn.kind = "label"
    /\ cmpOut' = TextOutput("set_label", set_label_cmd(cmpIn.val))
    /\ pc' = "text done"
    /\ UnchangedByText

DelLabelCommand ==
    /\ pc = "text" /\ cmpIn.kind = "label"
    /\ cmpOut' = TextOutput("del_label", del_label_cmd(cmpIn.val))
    /\ pc' = "text done"
    /\ UnchangedByText

FilterActionCommand ==
    /\ pc = "text" /\ cmpIn.kind = "action"
    /\ cmpOut' = TextOutput("apply_filters", filter_action_cmd(cmpIn.val))
    /\ pc' = "text done"
    /\ UnchangedByText

LoadActions ==
    /\ pc = "text" /\ cmpIn.kind = "actions"
    /\ cmpOut' = TextOutput("load_actions", load_actions(cmpIn.val))
    /\ pc' = "text done"
    /\ UnchangedByText

LoadState ==
    /\ pc = "text" /\ cmpIn.kind = "state"
    /\ cmpOut' = TextOutput("load_state", load_state(cmpIn.val))
    /\ pc' = "text done"
    /\ UnchangedByText

NextText ==
    \/ LoadState
    \/ LoadActions
    \/ LoadAddressField
    \/ ValidateImapQuery
    \/ SetLabelCommand
    \/ DelLabelCommand
    \/ FilterActionCommand

SpecText == InitText /\ [][NextText]_vars

(***************************************************************************)
(*                              CLAIMS                                     *)
(***************************************************************************)

\* Some pattern of the sequence ps wildcard-matches some address of es.
SomePatternMatches(ps, es) ==
    \E i \in DOMAIN ps : \E j \in DOMAIN es : GlobMatch(ps[i], es[j])

\* C1: in the result of MessageFilter.compare each address field (from, to,
\* cc), whatever the other fields hold, is true when the filter field is
\* absent, is true iff the message's list is empty when the filter field is
\* present with no pattern, and otherwise is true iff some pattern of the
\* field matches some address of the message's list.
C1_FieldSemantics ==
    (cmpOut # None /\ cmpOut.op = "compare") =>
        \A f \in Fields :
            LET ff == cmpIn.filter[f]
                list == cmpIn.msg[f]
            IN cmpOut.result[f] =
                 (IF ff = None THEN TRUE
                  ELSE IF Len(ff.val) = 0 THEN Len(list) = 0
                  ELSE SomePatternMatches(ff.val, Emails(list)))

\* C1 witness: one comparison showing the three cases: an absent field that
\* is true, a present-empty field that is false on a non-empty list and a
\* present non-empty field that is true.
C1_Witness ==
    /\ cmpOut # None
    /\ cmpOut.op = "compare"
    /\ \E f, g, h \in Fields :
        /\ cmpIn.filter[f] = None /\ cmpOut.result[f]
        /\ cmpIn.filter[g] = Some(<<>>) /\ cmpIn.msg[g] # <<>> /\ ~cmpOut.result[g]
        /\ cmpIn.filter[h] # None /\ Len(cmpIn.filter[h].val) = MaxPats /\ cmpOut.result[h]

\* C2: AddressFilter.matches(P, E) is true iff P is non-empty and some
\* pattern of P wildcard-matches some address of E; for the empty P it is
\* false for every E.
C2_AddressFilterMatches ==
    (cmpOut # None /\ cmpOut.op = "matches") =>
        LET P == cmpIn.filter[cmpIn.main].val
            E == Emails(cmpIn.msg[cmpIn.main])
        IN /\ cmpOut.result = (P # <<>> /\ SomePatternMatches(P, E))
           /\ P = <<>> => ~cmpOut.result

\* C2 witness: a match found by the last pattern on the last address only.
C2_Witness ==
    /\ cmpOut # None
    /\ cmpOut.op = "matches"
    /\ cmpOut.result
    /\ LET P == cmpIn.filter[cmpIn.main].val
           E == Emails(cmpIn.msg[cmpIn.main])
       IN /\ Len(P) = MaxPats /\ Len(E) = MaxAddrs
          /\ \A i \in DOMAIN P, j \in DOMAIN E :
                GlobMatch(P[i], E[j]) <=> (i = Len(P) /\ j = Len(E))

\* The filters, by index, whose four compare results are all true for msg.
MatchingFilters(msg) == { j \in DOMAIN filters : Matches(msg, filters[j]) }

\* C3: each working-set message is processed (receives a filter's actions)
\* at most once, by the first filter in configured order that matches it on
\* all four fields, never by a later one; a message still remaining has
\* matched none of the filters evaluated so far.
C3_FirstMatchWins ==
    /\ \A k \in DOMAIN processed :
         LET e == processed[k]
         IN /\ e.filter \in MatchingFilters(e.msg)
            /\ \A j \in MatchingFilters(e.msg) : e.filter <= j
            /\ \A k2 \in DOMAIN processed :
                 processed[k2].msg.seq = e.msg.seq => k2 = k
    /\ pc \in {"filter", "act"} =>
         \A i \in DOMAIN messages :
            \A j \in MatchingFilters(messages[i]) :
                j > fi \/ (j = fi /\ pc = "filter")

\* C3 witness: the pass is over, a message that two filters match was
\* processed by the first of them, and the second filter processed another
\* message that the first filter had carried forward.
C3_Witness ==
    /\ pc = "done"
    /\ \E k, k2 \in DOMAIN processed :
        /\ processed[k].filter = 1
        /\ MatchingFilters(processed[k].msg) = {1, 2}
        /\ processed[k2].filter = 2
        /\ processed[k2].attempted # <<>>

\* C4: every message matched by a filter has every action of the filter's
\* action list attempted, once each and in the order of the list.
C4_AllActionsInOrder ==
    \A k \in DOMAIN processed :
        processed[k].attempted = filters[processed[k].filter].actions

\* The server's record of the message with this UID, in INBOX or moved out.
Stored(uid) == { mbox[i] : i \in { j \in DOMAIN mbox : mbox[j].uid = uid } }

Protected(m) == L_Starred \in m.labels \/ L_Important \in m.labels

\* C5: no retention state sends its action for a message that carries the
\* label Star or Flag writes (\Starred, \Important).
C5_ProtectedNeverMutated ==
    \A k \in DOMAIN evals :
        evals[k].kind = "applied" => \A m \in Stored(evals[k].uid) : ~Protected(m)

\* The commands a step sent.
Sent == { calls'[k] : k \in (Len(calls) + 1)..Len(calls') }

\* The candidate an EvalCandidate step is about to evaluate.
Candidate == mbox[CHOOSE i \in ByUid(mbox, Head(uids)) : TRUE]

\* C6: evaluating a candidate of a state with nerf (dry run) set sends no
\* mutating command and leaves the mailbox as it is; when the candidate is
\* past the state's TTL and not exempted, the would-be action is logged.
C6_DryRunNoMutation ==
    [][ (pc = "candidate" /\ states[si].nerf) =>
          /\ \A c \in Sent : ~Mutating(c)
          /\ mbox' = mbox /\ folders' = folders
          /\ LET d == parse_days(TtlPeriod(states[si].ttl, Candidate.seen))
             IN (/\ ~FreePass(get_labels(mbox, Head(uids)))
                 /\ d.ok
                 /\ now - Candidate.internal >= d.val)
                => evals'[Len(evals')].kind = "nerf" ]_vars

\* C6 witness: the run is over and a candidate past the TTL of a dry-run
\* state was logged, the state's action being Delete.
C6_Witness ==
    /\ pc = "done"
    /\ \E k \in DOMAIN evals :
        /\ evals[k].kind = "nerf"
        /\ evals[k].age >= evals[k].ttl
        /\ states[evals[k].state].nerf
        /\ states[evals[k].state].action = Delete
        /\ \A m \in Stored(evals[k].uid) : ~m.deleted

\* C7: whenever a candidate reaches the expiry test, the required duration
\* is the state's period d for Simple(d) whatever the read flag, and for
\* Detailed(read, unread) it is read exactly when the candidate's \Seen flag
\* is set and unread otherwise.
C7_TtlResolution ==
    \A k \in DOMAIN evals :
        evals[k].kind \in {"not expired", "nerf", "applied"} =>
            \A m \in Stored(evals[k].uid) :
                LET ttl == states[evals[k].state].ttl
                IN CASE ttl.kind = "Simple" ->
                           evals[k].ttl = parse_days(ttl.days).val
                     [] ttl.kind = "Detailed" ->
                           evals[k].ttl = parse_days(IF m.seen THEN ttl.read
                                                     ELSE ttl.unread).val
                     [] OTHER -> FALSE

\* C7 witness: one run resolved a read candidate and an unread candidate
\* under a Detailed state with different periods, and a candidate under a
\* Simple state.
C7_Witness ==
    \E k1, k2, k3 \in DOMAIN evals :
        /\ states[evals[k1].state].ttl = Detailed(<<"1", "d">>, <<"2", "d">>)
        /\ evals[k1].kind \in {"not expired", "applied"}
        /\ \A m \in Stored(evals[k1].uid) : m.seen
        /\ evals[k1].ttl = 1
        /\ states[evals[k2].state].ttl = Detailed(<<"1", "d">>, <<"2", "d">>)
        /\ evals[k2].kind \in {"not expired", "applied"}
        /\ \A m \in Stored(evals[k2].uid) : ~m.seen
        /\ evals[k2].ttl = 2
        /\ states[evals[k3].state].ttl.kind = "Simple"
        /\ evals[k3].kind \in {"not expired", "applied"}

Skipped(e) == e.kind \in {"free pass", "keep", "not expired"}

\* C8: a candidate that carries neither \Starred nor \Important, under a
\* state whose TTL gives a duration, is skipped iff now - INTERNALDATE is
\* less than that duration; at age = duration or more it is expired and,
\* without dry run, the state's action is sent for it.
C8_ExpiryBoundary ==
    \A k \in DOMAIN evals :
        LET e == evals[k]
            st == states[e.state]
        IN \A m \in Stored(e.uid) :
            (~Protected(m) /\ st.ttl.kind # "Keep" /\ e.kind # "error") =>
                LET required == parse_days(IF st.ttl.kind = "Simple" THEN st.ttl.days
                                           ELSE IF m.seen THEN st.ttl.read
                                           ELSE st.ttl.unread).val
                    age == now - m.internal
                IN /\ Skipped(e) <=> age < required
                   /\ (age >= required /\ ~st.nerf) => e.kind = "applied"

\* C9: evaluating a candidate of a state whose TTL is Keep sends no mutating
\* command and leaves the mailbox and the folders as they are.
C9_KeepNeverMutates ==
    [][ (pc = "candidate" /\ states[si].ttl = Keep) =>
          /\ \A c \in Sent : ~Mutating(c)
          /\ mbox' = mbox /\ folders' = folders ]_vars

\* C9 witness: the run is over and a candidate that was not exempted as
\* starred or important, one day old or more, was skipped by a Keep state
\* whose action is Delete, and is not marked deleted.
C9_Witness ==
    /\ pc = "done"
    /\ \E k \in DOMAIN evals :
        /\ evals[k].kind = "keep"
        /\ states[evals[k].state].ttl = Keep
        /\ states[evals[k].state].action = Delete
        /\ \A m \in Stored(evals[k].uid) : now - m.internal >= 1 /\ ~m.deleted

\* The Move actions that were sent: by the filter pass and by the states.
MovesSent ==
    UNION { { [ uid |-> processed[k].msg.uid, label |-> processed[k].attempted[i].label ] :
                i \in { j \in DOMAIN processed[k].attempted :
                          processed[k].attempted[j].type = "Move" } } :
            k \in DOMAIN processed }
    \cup
    { [ uid |-> evals[k].uid, label |-> states[evals[k].state].action.label ] :
        k \in { j \in DOMAIN evals : /\ evals[j].kind = "applied"
                                     /\ states[evals[j].state].action.type = "Move" } }

IsStore(c, uid, sign, label) ==
    /\ c.op \in {"STORE", "UID STORE"}
    /\ c.id = uid
    /\ c.arg[1] = sign
    /\ c.arg[2] = label

\* C10: every Move that is carried out lists the mailboxes to ensure the
\* destination label exists, then adds the destination label to the
\* message, then removes the INBOX label from it, in that order.
C10_MoveSequence ==
    \A mv \in MovesSent :
        \E i, j, l \in DOMAIN calls :
            /\ i < j /\ j < l
            /\ calls[i].op = "LIST"
            /\ IsStore(calls[j], mv.uid, "+X-GM-LABELS", mv.label)
            /\ IsStore(calls[l], mv.uid, "-X-GM-LABELS", L_Inbox)

\* C11: while uid_move or uid_move_gmail is between its two steps, the step
\* that takes the inbox label from a message leaves that message with the
\* destination label: no message goes from carrying the inbox label to
\* carrying neither the inbox label nor the destination label.
C11_NeverOrphaned ==
    [][ (pc \in {"ls move", "ls gmail"}) =>
          \A i \in DOMAIN mbox :
              (L_Inbox \in mbox[i].labels /\ L_Inbox \notin mbox'[i].labels)
                  => (lsCall.label \in mbox'[i].labels) ]_vars

\* The commands of a returned label-store call, as indexes of calls.
CallsOf(e) == e.first..e.last

\* C12: when set_label(uid, L) returns Ok twice in a row, the second call
\* sends neither an add (STORE +X-GM-LABELS) nor a CREATE.
C12_SetLabelIdempotent ==
    \A k \in 1..(Len(lsLog) - 1) :
        LET a == lsLog[k]
            b == lsLog[k + 1]
        IN (/\ a.fn = "set_label" /\ b.fn = "set_label"
            /\ a.uid = b.uid /\ a.label = b.label
            /\ a.ok /\ b.ok)
           => \A i \in CallsOf(b) : calls[i].op \notin {"STORE", "CREATE"}

\* The label-store call that a step has just returned from.
Returning == lsLog'[Len(lsLog')]

\* C13: del_label(uid, L) sends exactly one command, the STORE -X-GM-LABELS
\* of L, without a FETCH before it, and returns Ok whenever the server
\* accepts that command; when it follows an accepted del_label(uid, L) of
\* the same uid and label, it leaves every label set as it was.
C13_DelLabelUnconditional ==
    [][ (pc = "ls" /\ Len(lsLog') = Len(lsLog) + 1 /\ Returning.fn = "del_label") =>
          /\ Returning.first = Len(calls) + 1
          /\ Returning.last = Returning.first
          /\ calls'[Returning.first].op = "STORE"
          /\ calls'[Returning.first].id = Returning.uid
          /\ calls'[Returning.first].arg = << "-X-GM-LABELS", Returning.label >>
          /\ Returning.ok = calls'[Returning.first].ok
          /\ (/\ lsLog # <<>>
              /\ lsLog[Len(lsLog)] = [Returning EXCEPT !.first = lsLog[Len(lsLog)].first,
                                                       !.last = lsLog[Len(lsLog)].last]
              /\ Returning.ok)
             => mbox' = mbox ]_vars

\* C13 witness: del_label(2, "Starred Mail") returned Ok twice in a row on
\* the message with UID 2 and sequence number 2, which carried the label
\* and no longer does.
C13_Witness ==
    /\ Len(lsLog) = 2
    /\ \A k \in 1..2 : /\ lsLog[k].fn = "del_label" /\ lsLog[k].ok
                       /\ lsLog[k].uid = 2 /\ lsLog[k].label = L_StarredMail
    /\ mbox[2].uid = 2
    /\ L_StarredMail \notin mbox[2].labels

\* C14: for every label, at most one CREATE is sent, and it is sent only
\* while the label is not among the server's mailboxes.
C14_AtMostOneCreate ==
    \A label \in LsLabels :
        Cardinality({ i \in DOMAIN calls :
                        calls[i].op = "CREATE" /\ calls[i].arg = label }) <= 1

\* A message the filter pass processed whose action the server refused.
FailedAction(e) == e.attempted # <<>> /\ ~e.ok

\* C15: when an action of the filter pass fails for a message, the filter's
\* remaining actions are still attempted for that message, the pass does
\* not stop, and once it is over every fetched message that some filter
\* matches has been processed.
C15_FailureIsolation ==
    (\E k \in DOMAIN processed : FailedAction(processed[k])) =>
        /\ \A k \in DOMAIN processed :
              FailedAction(processed[k]) =>
                  processed[k].attempted = filters[processed[k].filter].actions
        /\ pc # "failed"
        /\ pc \in {"select", "search", "candidate", "logout", "done"} =>
              \A m \in Range(FetchedMessages([ i \in DOMAIN mbox |->
                                                 [mbox[i] EXCEPT !.inbox = TRUE] ])) :
                  MatchingFilters(m) # {} =>
                      \E k \in DOMAIN processed : processed[k].msg = m

\* The message fetch_messages builds from the i-th message of the account.
Fetched(i) == Message_new(0, i, mbox[i].body.val)

\* No filter of the list matches the i-th message of the account.
Unmatched(i) == mbox[i].body = None \/ MatchingFilters(Fetched(i)) = {}

\* C16: no step of the filter pass changes a message that no filter
\* matches (labels, flags and INBOX membership stay as they are) or sends a
\* mutating command addressed to it.
C16_UnmatchedUntouched ==
    [][ (pc \in {"filter", "act"}) =>
          \A i \in DOMAIN mbox :
              Unmatched(i) =>
                  /\ mbox'[i] = mbox[i]
                  /\ \A c \in Sent : Mutating(c) => c.id # mbox[i].uid ]_vars

\* C16 witness: the run is over, the filter pass starred one message on the
\* server, and another message with headers, matched by no filter, is in
\* INBOX without the star.
C16_Witness ==
    /\ pc = "done"
    /\ \E k \in DOMAIN processed, i, j \in DOMAIN mbox :
        /\ processed[k].ok
        /\ mbox[i].uid = processed[k].msg.uid
        /\ L_Starred \in mbox[i].labels
        /\ mbox[j].body # None
        /\ Unmatched(j)
        /\ mbox[j].inbox
        /\ L_Starred \notin mbox[j].labels

AllFour(msg, filter) ==
    LET r == compare(msg, filter)
    IN r.from = TRUE /\ r.to = TRUE /\ r.cc = TRUE /\ r.subject = TRUE

\* C17: the partition step of a filter, when every comparison returns, puts
\* a remaining message in the matched set iff its four compare results are
\* all true and keeps it in the remaining set otherwise, and the filter acts
\* only on messages whose four compare results are all true.
C17_MatchIsConjunction ==
    [][ /\ (pc = "filter" /\ pc' # "panicked") =>
              /\ matched' = SelectSeq(messages, LAMBDA m : AllFour(m, filters[fi]))
              /\ messages' = SelectSeq(messages, LAMBDA m : ~AllFour(m, filters[fi]))
        /\ (pc = "act") =>
              /\ AllFour(Head(matched), filters[fi])
              /\ processed'[Len(processed')].msg = Head(matched) ]_vars

\* C17 witness: the run is over; a filter with a present-empty cc field
\* starred a message without Cc, and a message whose To matches the filter
\* but which has a Cc address (to true, cc false) was not processed.
C17_Witness ==
    /\ pc = "done"
    /\ \E j \in DOMAIN filters, i \in DOMAIN mbox :
        /\ filters[j].cc = Some(<<>>)
        /\ mbox[i].body # None
        /\ compare(Fetched(i), filters[j]) =
              [from |-> TRUE, to |-> TRUE, cc |-> FALSE, subject |-> TRUE]
        /\ \A k \in DOMAIN processed : processed[k].msg.seq # i
        /\ \E k \in DOMAIN processed : processed[k].filter = j /\ processed[k].ok

\* C18: the subject result of compare is true when the filter has no
\* subject pattern, and otherwise is true iff at least one of its patterns
\* glob-matches the message's subject.
C18_SubjectSemantics ==
    (cmpOut # None /\ cmpOut.op = "compare") =>
        cmpOut.result.subject =
            (\/ cmpIn.filter.subject = <<>>
             \/ \E k \in DOMAIN cmpIn.filter.subject :
                    GlobMatch(cmpIn.filter.subject[k], cmpIn.msg.subject))

\* C18 witness: a comparison whose subject result is true because the
\* second of two patterns matches while the first does not.
C18_Witness ==
    /\ cmpOut # None
    /\ cmpOut.op = "compare"
    /\ Len(cmpIn.filter.subject) = 2
    /\ ~GlobMatch(cmpIn.filter.subject[1], cmpIn.msg.subject)
    /\ GlobMatch(cmpIn.filter.subject[2], cmpIn.msg.subject)
    /\ cmpOut.result.subject = TRUE

\* The required duration of the current state for the candidate; only
\* read for a state whose TTL is not Keep.
CandidateTtl == parse_days(TtlPeriod(states[si].ttl, Candidate.seen))

\* C19: for a candidate that carries neither \Starred nor \Important and
\* whose age has reached the required duration, a state with action Delete
\* and without dry run sends UID STORE +FLAGS (\Deleted) for the candidate
\* and no other mutating command (no label add, remove or create).
C19_DeleteMarksOnly ==
    [][ (/\ pc = "candidate"
         /\ states[si].action = Delete
         /\ ~states[si].nerf
         /\ states[si].ttl.kind # "Keep"
         /\ ~Protected(Candidate)
         /\ CandidateTtl.ok
         /\ now - Candidate.internal >= CandidateTtl.val) =>
          /\ \E c \in Sent : /\ c.op = "UID STORE"
                             /\ c.id = Candidate.uid
                             /\ c.arg = << "+FLAGS", "\\Deleted" >>
          /\ \A c \in Sent : Mutating(c) => c.arg = << "+FLAGS", "\\Deleted" >> ]_vars

\* The UIDs of the messages in INBOX that a query selects.
Selected(query) ==
    { mbox[i].uid : i \in { j \in DOMAIN mbox : mbox[j].inbox /\ SearchHit(mbox[j], query) } }

C21_ValidatedBeforeSearch ==
    \A k \in DOMAIN calls :
        calls[k].op = "UID SEARCH" => validate_imap_query(calls[k].arg) = "Ok"

\* C22: a pattern that is no glob never surfaces while messages are being
\* matched: no run panics in the filter pass.
C22_GlobRejectedAtLoad == pc # "panicked"

\* C23: a search the server rejects ends only its own state: the pass goes
\* on to the state after it, or to the logout when it was the last state.
C23_QueryErrorIsLocal ==
    [][ (pc = "search" /\ ~SearchAccepted(states[si].query)) =>
            /\ pc' # "failed"
            /\ si < Len(states) => (si' = si + 1 /\ pc' = "search") ]_vars

\* C24: when the terminal action of a state fails for a candidate, the
\* failure is recorded and the pass goes on: to the next candidate of the
\* state, else to the next state, else to the logout; the failed action
\* leaves the mailbox as it was.
C24_FailedTransitionRecovered ==
    [][ (/\ pc = "candidate"
         /\ Len(evals') = Len(evals) + 1
         /\ evals'[Len(evals')].kind = "applied"
         /\ ~evals'[Len(evals')].ok) =>
            /\ uids' = Tail(uids)
            /\ mbox' = mbox
            /\ pc' = IF uids' # <<>> THEN "candidate"
                     ELSE IF si < Len(states) THEN "search" ELSE "logout" ]_vars

\* C24 witness: the run ended with the logout after an action failed for a
\* candidate, a later candidate of the same state was evaluated and a later
\* state was evaluated.
C24_Witness ==
    /\ pc = "done"
    /\ calls[Len(calls)] = Call("LOGOUT", 0, "", TRUE)
    /\ \E k, k2, k3 \in DOMAIN evals :
        /\ evals[k].kind = "applied" /\ ~evals[k].ok
        /\ k < k2 /\ evals[k2].state = evals[k].state
        /\ k < k3 /\ evals[k3].state > evals[k].state

\* C25: when connecting or logging in fails, the run is over at once: the
\* failed login is the only command of the run, so no fetch, no filter
\* action, no retention action, no label creation and no logout is sent,
\* and no message was fetched, processed or evaluated.
C25_LoginFailureSendsNothing ==
    (calls # <<>> /\ ~calls[1].ok) =>
        /\ calls = << Call("LOGIN", 0, "", FALSE) >>
        /\ pc = "failed"
        /\ messages = <<>> /\ processed = <<>> /\ evals = <<>>

\* C25 witness: the login failed for a configuration with filters and
\* states and a mailbox that holds messages.
C25_Witness ==
    /\ pc = "failed"
    /\ calls = << Call("LOGIN", 0, "", FALSE) >>
    /\ filters # <<>> /\ states # <<>>
    /\ InboxIdx(mbox) # <<>>

\* C26: the fetch builds one message for every record of INBOX, in the
\* order of the records: the working set that enters the filter pass has as
\* many messages as INBOX has records, and the k-th message carries the
\* sequence number of the k-th record.
C26_EveryRecordYieldsMessage ==
    [][ (pc = "fetch") =>
            /\ Len(messages') = Len(InboxIdx(mbox))
            /\ \A k \in DOMAIN messages' :
                 messages'[k].seq = SeqNumber(mbox, InboxIdx(mbox)[k]) ]_vars

\* The action already holds for a message: it is starred, it is flagged
\* important, or it carries the destination label and is out of INBOX.
AlreadyHolds(action, m) ==
    CASE action.type = "Star" -> L_Starred \in m.labels
      [] action.type = "Flag" -> L_Important \in m.labels
      [] action.type = "Move" -> action.label \in m.labels /\ ~m.inbox
      [] OTHER -> FALSE

\* C27: a filter action applied to a matched message for which it already
\* holds leaves the server's messages as they are and, unless the server
\* fails the command, is recorded as a success.
C27_ActionsIdempotent ==
    [][ (/\ pc = "act"
         /\ HonoredActions(filters[fi].actions) # <<>>
         /\ faults' = faults
         /\ AlreadyHolds(HonoredActions(filters[fi].actions)[1], mbox[Head(matched).seq])) =>
            /\ mbox' = mbox
            /\ processed'[Len(processed')].ok ]_vars

\* C28: loading an address field keeps its three states apart: an omitted
\* key, and nothing else, loads as an absent field; an empty list, and
\* nothing else, loads as a present field without patterns; a single
\* pattern p loads as the list [p] does.
C28_TriStateLoad ==
    (pc = "text done" /\ cmpIn.kind = "address field") =>
        LET node == cmpIn.val
            out == cmpOut.val
        IN /\ (out = Ok(None)) <=> (node = Omitted)
           /\ (out = Ok(Some(<<>>))) <=> (node = YamlSeq(<<>>))
           /\ node.tag = "Str" =>
                 /\ out = Ok(Some(<< node.val >>))
                 /\ out = load_address_field(YamlSeq(<< node >>))

\* C28 witness: an empty list was loaded as a present field without
\* patterns, which a message with a To address does not match.
C28_Witness ==
    /\ pc = "text done"
    /\ cmpIn = TextInput("address field", YamlSeq(<<>>))
    /\ cmpOut.val = Ok(Some(<<>>))
    /\ ~matches_field(cmpOut.val.val, << <<"n", a_x>> >>)
    /\ matches_field(load_address_field(Omitted).val, << <<"n", a_x>> >>)

\* A token as the claim allows it, parentheses and quotes aside: a known
\* keyword, the escape of a known flag, or letters and digits only.
CleanToken(token) ==
    LET t == trim_matches(token, {"(", ")", "\""})
    IN \/ \E v \in valid_tokens : eq_ignore_ascii_case(v, t)
       \/ t \in KnownFlags
       \/ \A i \in DOMAIN t : is_alphanumeric(t[i])

\* C29: validate_imap_query rejects a query that is empty or all
\* whitespace, and accepts a query iff every one of its tokens is a known
\* keyword, the escape of a known flag or purely alphanumeric.
C29_AcceptedQueriesAreClean ==
    (pc = "text done" /\ cmpIn.kind = "query") =>
        LET tokens == split_whitespace(cmpIn.val)
        IN /\ tokens = <<>> => cmpOut.val # "Ok"
           /\ cmpOut.val = "Ok" <=>
                 (tokens # <<>> /\ \A k \in DOMAIN tokens : CleanToken(tokens[k]))

\* The label name a filter action writes.
filter_action_label(action) ==
    CASE action.type = "Star" -> <<"\\", "S", "t", "a", "r", "r", "e", "d">>
      [] action.type = "Flag" -> <<"\\", "I", "m", "p", "o", "r", "t", "a", "n", "t">>

\* The text between the parentheses of a label command, without the
\* quotes around it.
EmbeddedName(cmd) ==
    LET open == CHOOSE i \in DOMAIN cmd :
                    cmd[i] = "(" /\ \A j \in 1..(i - 1) : cmd[j] # "("
        inner == SubSeq(cmd, open + 1, Len(cmd) - 1)
    IN IF Len(inner) >= 2 /\ inner[1] = "\"" /\ inner[Len(inner)] = "\""
       THEN SubSeq(inner, 2, Len(inner) - 1)
       ELSE inner

\* Reading an escaped name back: a backslash stands before a backslash or
\* a quote and gives that character; a quote on its own ends the name.
RECURSIVE Unescape(_)
Unescape(s) ==
    IF s = <<>> THEN Some(<<>>)
    ELSE IF s[1] = "\""  THEN None
    ELSE IF s[1] = "\\"
         THEN IF Len(s) >= 2 /\ s[2] \in {"\\", "\""}
              THEN LET rest == Unescape(SubSeq(s, 3, Len(s)))
                   IN IF rest = None THEN None ELSE Some(<< s[2] >> \o rest.val)
              ELSE None
    ELSE LET rest == Unescape(Tail(s))
         IN IF rest = None THEN None ELSE Some(<< s[1] >> \o rest.val)

\* C30: the name embedded in a label command reads back as the label name
\* it was built from: every backslash of the name is doubled and every
\* quote has a backslash before it, so distinct names give distinct
\* commands and no character of the name ends the embedded name early.
C30_LabelNamesEscaped ==
    (pc = "text done" /\ cmpIn.kind \in {"label", "action"}) =>
        Unescape(EmbeddedName(cmpOut.val)) =
            Some(IF cmpIn.kind = "label" THEN cmpIn.val ELSE filter_action_label(cmpIn.val))

\* The names the claim allows: Star, Flag, and Move: with a label.
KnownActionName(n) == n \in { <<"S", "t", "a", "r">>, <<"F", "l", "a", "g">> } \/ starts_with(n, <<"M", "o", "v", "e", ":">>)

\* The node names an action that is none of them.
NamesUnknownAction(node) ==
    CASE node.tag = "Str" -> ~KnownActionName(node.val)
      [] node.tag = "Seq" ->
            \E i \in DOMAIN node.val :
                node.val[i].tag = "Str" /\ ~KnownActionName(node.val[i].val)
      [] node.tag = "Entry" -> node.key \notin { <<"S", "t", "a", "r">>, <<"F", "l", "a", "g">>, <<"M", "o", "v", "e">> }
      [] OTHER -> FALSE

\* C31: loading the actions of a filter fails when the node names an
\* unknown action; Star, Flag, Move:<label> and { Move: label } load as
\* Star, Flag and Move to that label, and whatever loads is a list of Star,
\* Flag and Move actions.
C31_UnknownActionRejected ==
    (pc = "text done" /\ cmpIn.kind = "actions") =>
        LET node == cmpIn.val
            out == cmpOut.val
        IN /\ NamesUnknownAction(node) => ~out.ok
           /\ out.ok => \A i \in DOMAIN out.val : out.val[i].type \in {"Star", "Flag", "Move"}
           /\ node = YamlStr(<<"S", "t", "a", "r">>) => out = Ok(<< Star >>)
           /\ node = YamlStr(<<"F", "l", "a", "g">>) => out = Ok(<< Flag >>)
           /\ node = YamlStr(<<"M", "o", "v", "e", ":", "A", "r", "c", "h", "i", "v", "e">>) => out = Ok(<< Move(<<"A", "r", "c", "h", "i", "v", "e">>) >>)
           /\ node = YamlEntry(<<"M", "o", "v", "e">>, YamlStr(<<"A", "r", "c", "h", "i", "v", "e">>)) => out = Ok(<< Move(<<"A", "r", "c", "h", "i", "v", "e">>) >>)

\* C31 witness: a list with a known and an unknown name was rejected.
C31_Witness ==
    /\ pc = "text done"
    /\ cmpIn.kind = "actions"
    /\ cmpIn.val.tag = "Seq"
    /\ cmpIn.val = YamlSeq(<< YamlStr(<<"S", "t", "a", "r">>), YamlStr(<<"U", "n", "k", "n", "o", "w", "n">>) >>)
    /\ cmpOut.val = LoadError

\* C32: a state that loads from a mapping without an action has the action
\* Move to ToBeDeleted, which is not Delete, and a state that loads from a
\* mapping without a nerf flag has the dry run off.
C32_StateDefaults ==
    (pc = "text done" /\ cmpIn.kind = "state" /\ cmpOut.val.ok) =>
        /\ cmpIn.val.action = Omitted =>
              /\ cmpOut.val.val.action = Move(<<"T", "o", "B", "e", "D", "e", "l", "e", "t", "e", "d">>)
              /\ cmpOut.val.val.action.type # "Delete"
        /\ cmpIn.val.nerf = Omitted => cmpOut.val.val.nerf = FALSE

\* C32 witness: a state with a query and a TTL only was loaded and got
\* both defaults.
C32_Witness ==
    /\ pc = "text done"
    /\ cmpIn.kind = "state"
    /\ cmpIn.val.action = Omitted /\ cmpIn.val.nerf = Omitted
    /\ cmpOut.val.ok
    /\ cmpOut.val.val.action = Move(<<"T", "o", "B", "e", "D", "e", "l", "e", "t", "e", "d">>)
    /\ ~cmpOut.val.val.nerf

\* The searches of the retention pass among the commands sent.
Searches(cs) == SelectSeq(cs, LAMBDA c : c.op = "UID SEARCH")

\* C33: the run is one pass in order.  The fetch follows the login; while
\* the filters run no search is sent and no candidate is evaluated; once
\* the retention pass has begun every filter has been through its matched
\* messages and no filter action is attempted any more; the k-th search is
\* that of the k-th state and is sent when every candidate of the states
\* before it has been evaluated; the logout comes last, after the search of
\* every state.
C33_SequentialPass ==
    [][ /\ (pc = "fetch") => calls = << Call("LOGIN", 0, "", TRUE) >>
        /\ (pc \in {"filter", "act"}) =>
              /\ evals' = evals
              /\ Searches(calls') = <<>>
        /\ (pc \in {"select", "search", "candidate", "logout"}) =>
              /\ processed' = processed
              /\ matched = <<>>
              /\ filters # <<>> => fi = Len(filters)
        /\ (pc = "search") =>
              /\ uids = <<>>
              /\ \A k \in DOMAIN evals : evals[k].state < si
              /\ Len(Searches(calls')) = si
              /\ \A k \in 1..si : Searches(calls')[k].arg = states[k].query
        /\ (pc = "candidate") =>
              /\ evals'[Len(evals')].state = si
              /\ Searches(calls') = Searches(calls)
        /\ (pc = "logout") =>
              /\ uids = <<>>
              /\ Len(Searches(calls)) = Len(states)
              /\ calls' = Append(calls, Call("LOGOUT", 0, "", TRUE)) ]_vars

\* C33 witness: the run is over; the filter acted on a message, then the
\* state was searched and acted on a candidate, then the logout was sent.
C33_Witness ==
    /\ pc = "done"
    /\ \E k \in DOMAIN processed : processed[k].ok
    /\ \E k \in DOMAIN evals : evals[k].kind = "applied" /\ evals[k].ok
    /\ Len(Searches(calls)) = 1
    /\ calls[Len(calls)].op = "LOGOUT"

\* C34: when a candidate is evaluated, the message whose labels the
\* protective check reads is the message the state's search returned: the
\* identifier of the search and the identifier of the label read denote the
\* same message.
C34_SameMessageRead ==
    (pc = "candidate") => BySeq(mbox, Head(uids)) = ByUid(mbox, Head(uids))

\* The messages of the filter pass: those still remaining and those the
\* current filter matched and has not yet acted on.
WorkingSet == messages \o matched

\* C35: every message of the working set carries the UID of the record it
\* was built from, no two of them share a UID, and every filter command is
\* addressed to the UID of the record of the message that matched.
C35_WorkingSetIdentified ==
    /\ \A k \in DOMAIN WorkingSet : WorkingSet[k].uid = mbox[WorkingSet[k].seq].uid
    /\ \A j, k \in DOMAIN WorkingSet : j # k => WorkingSet[j].uid # WorkingSet[k].uid
    /\ \A k \in DOMAIN processed : processed[k].msg.uid = mbox[processed[k].msg.seq].uid

\* C36: a candidate that carries neither \Starred nor \Important and whose
\* age has reached the required duration of a state that is neither Keep
\* nor dry run has the state's action sent for it exactly once while the
\* state is evaluated: the evaluation of the candidate sends one mutating
\* command, the state's action for the candidate's UID, and the state has
\* not evaluated that UID before.
C36_ExpiredActedOnce ==
    [][ (/\ pc = "candidate"
         /\ ~states[si].nerf
         /\ states[si].ttl.kind # "Keep"
         /\ ~Protected(Candidate)
         /\ CandidateTtl.ok
         /\ now - Candidate.internal >= CandidateTtl.val) =>
          /\ Cardinality({ k \in (Len(calls) + 1)..Len(calls') : Mutating(calls'[k]) }) = 1
          /\ \E ok \in BOOLEAN : ActionCall(states[si].action, Candidate.uid, ok) \in Sent
          /\ \A k \in DOMAIN evals :
                ~(evals[k].state = si /\ evals[k].uid = Head(uids)) ]_vars

\* C37: a filter with an empty action list still claims what it matches.
\* Its partition takes every remaining message it matches out of the
\* remaining set; its turn on a matched message sends no command, leaves
\* the mailbox and the folders as they are and records the message with no
\* action attempted; and no filter processes that message afterwards.
C37_EmptyActionsStillClaim ==
    [][ /\ (pc = "filter" /\ pc' # "panicked" /\ filters[fi].actions = <<>>) =>
              \A k \in DOMAIN messages :
                  Matches(messages[k], filters[fi]) =>
                      /\ messages[k] \notin Range(messages')
                      /\ messages[k] \in Range(matched')
        /\ (pc = "act" /\ filters[fi].actions = <<>>) =>
              /\ calls' = calls
              /\ mbox' = mbox /\ folders' = folders
              /\ Head(matched) \notin Range(messages') \cup Range(matched')
              /\ processed'[Len(processed')].msg = Head(matched)
              /\ processed'[Len(processed')].attempted = <<>>
        /\ \A k \in DOMAIN processed' :
              filters[processed'[k].filter].actions = <<>> =>
                  \A k2 \in DOMAIN processed' :
                      k2 > k => processed'[k2].msg.seq # processed'[k].msg.seq ]_vars

\* C37 witness: the pass is over; the first filter has an empty action list
\* and claimed a message that the second filter, which has an action,
\* matches as well; the second filter never got it and no mutating command
\* was sent.
C37_Witness ==
    /\ pc = "done"
    /\ Len(filters) = 2
    /\ filters[1].actions = <<>>
    /\ filters[2].actions # <<>>
    /\ \E k \in DOMAIN processed :
        /\ processed[k].filter = 1
        /\ MatchingFilters(processed[k].msg) = {1, 2}
        /\ processed[k].attempted = <<>>
    /\ \A k \in DOMAIN processed : processed[k].filter = 1
    /\ \A c \in Range(calls) : ~Mutating(c)

\* The messages the pass has taken charge of: processed, matched and
\* waiting for the current filter's action, or still remaining.
InPass == [ k \in DOMAIN processed |-> processed[k].msg ] \o matched \o messages

\* C38: the filter pass conserves the working set.  A partition that
\* returns splits the remaining messages into a matched and a remaining
\* part that are disjoint and together are the messages that remained
\* before it; a filter is given the remaining messages once (the loop
\* reaches a filter from the fetch or from the filter before it, never
\* again); from the fetch on, every fetched message is in the pass exactly
\* once; and when the pass ends every message was processed by one filter
\* or is still remaining and matches none of the filters.
C38_WorkingSetConserved ==
    [][ /\ (pc = "filter" /\ pc' # "panicked") =>
              /\ Range(matched') \cap Range(messages') = {}
              /\ Range(matched') \cup Range(messages') = Range(messages)
              /\ Len(matched') + Len(messages') = Len(messages)
        /\ (pc' = "filter") =>
              \/ pc = "fetch" /\ fi' = 1
              \/ pc \in {"filter", "act"} /\ fi' = fi + 1
        /\ (pc \in {"fetch", "filter", "act"}) =>
              /\ Len(InPass') = Cardinality({ i \in DOMAIN mbox : mbox[i].body # None })
              /\ \A j, k \in DOMAIN InPass' : j # k => InPass'[j].seq # InPass'[k].seq
        /\ (pc \in {"filter", "act"} /\ pc' = "select") =>
              /\ matched' = <<>>
              /\ \A k \in DOMAIN messages' : MatchingFilters(messages'[k]) = {}
              /\ \A k \in DOMAIN processed' :
                    Cardinality({ j \in DOMAIN processed' :
                                    processed'[j].msg = processed'[k].msg }) = 1 ]_vars

\* C38 witness: the pass is over; the first filter carried both fetched
\* messages forward, the second filter processed one of them, and the
\* other, matched by neither, is still remaining.
C38_Witness ==
    /\ pc = "done"
    /\ Len(filters) = 2
    /\ Len(processed) = 1
    /\ processed[1].filter = 2
    /\ Len(messages) = 1
    /\ MatchingFilters(messages[1]) = {}

====
